---- MODULE Spec2Model ----
(***************************************************************************)
(* Model of the versiontracker web cache (src/web_app.py): the process-wide *)
(* cache slot, the request handlers api_stats and api_refresh, the          *)
(* background refresh threads of update_cache_async, and the username       *)
(* validator.  Handlers and background threads run as Python threads        *)
(* (app.run(threaded=True), threading.Thread), so every access to the       *)
(* shared cache dictionary is a separate step that other threads may        *)
(* interleave with.                                                         *)
(***************************************************************************)
EXTENDS Integers, Sequences, FiniteSets, TLC

VARIABLES cache, heap, now, nreq, req, bg, vin, vres, vpc, op, gr, rl, pk, st,
          cz, ag, rp, ba

\* the state of the web application, and the state of the validator run
webVars == <<cache, heap, now, nreq, req, bg>>
valVars == <<vin, vres, vpc>>
\* the state of a run of the remote data client (src/version_tracker.py) and
\* of the batch statistics (src/batch_analyzer.py)
\* the state of a run of categorize_projects, of get_github_stats, of the
\* report renderers and of analyze_multiple_users
moreVars == <<cz, ag, rp, ba>>
libVars == <<op, gr, rl, pk, st, moreVars>>
vars == <<webVars, valVars, libVars>>

(***************************************************************************)
(* Bounds of the model.                                                     *)
(***************************************************************************)
\* number of HTTP requests served in one behaviour
MaxReq == 2
\* number of clock advances in one behaviour
MaxTicks == 2
\* longest username enumerated exhaustively by the validator specification
MaxLen == 3
\* number of full pages of the largest repository listing
MaxPages == 2
\* most assets of a release
MaxAssets == 2
\* longest release list given to the batch statistics
MaxReleases == 3
\* longest release list given to categorize_projects
MaxCatReleases == 2
\* most repositories of a listing given to get_github_stats, apart from the
\* listings that are long enough to reach the cap of recent_activity
MaxRepos == 2
\* longest list of usernames given to analyze_multiple_users
MaxUsers == 3

(***************************************************************************)
(* Program constants.                                                       *)
(***************************************************************************)
\* web_app.py:354  "< 86400  # 24 hours cache"
CacheTTL == 86400
\* web_app.py:359  "/ 3600"
SecondsPerHour == 3600
\* web_app.py:360  "24 - ..."
TTLHours == 24
\* web_app.py:103  "len(username) > 39"
UsernameMaxLength == 39
\* web_app.py:106  "{0,37}"
PatternMidMax == 37
\* version_tracker.py:63  "per_page = 100"
PerPage == 100
\* web_app.py:277  "timedelta(days=30)"
RecentDays == 30
\* web_app.py:265  "recent_releases[:10]"
RecentCap == 10
\* web_app.py:243  "[:5]"
TopLanguages == 5
\* seconds of a day, the unit of timedelta(days=...)
SecondsPerDay == 86400

\* one clock advance is half the time-to-live, so that one advance leaves an
\* entry fresh and two make it stale
TickStep == CacheTTL \div 2

(***************************************************************************)
(* Optional values (Python None).                                           *)
(***************************************************************************)
Absent == {}
Some(v) == {v}
Get(x) == CHOOSE v \in x : TRUE
Present(x) == x # {}

(***************************************************************************)
(* validate_username: strings are sequences of one-character strings.       *)
(***************************************************************************)
Letters == {"a", "b"}
Digits == {"7"}
Alphabet == Letters \cup Digits \cup {"-", "\n", "_"}

\* [a-zA-Z0-9]
IsAlnum(c) == c \in Letters \cup Digits
\* [a-zA-Z0-9-]
IsAlnumHyphen(c) == IsAlnum(c) \/ c = "-"

\* [a-zA-Z0-9]([a-zA-Z0-9-]{0,37}[a-zA-Z0-9])? consuming exactly s
MatchBody(s) ==
    /\ Len(s) >= 1
    /\ IsAlnum(s[1])
    /\ \/ Len(s) = 1
       \/ /\ Len(s) - 2 <= PatternMidMax
          /\ \A i \in 2..(Len(s) - 1) : IsAlnumHyphen(s[i])
          /\ IsAlnum(s[Len(s)])

\* re.match(pattern, s): "^" anchors at the start; "$" matches at the end of
\* the string and also just before a newline that ends the string
PatternMatch(s) ==
    \/ MatchBody(s)
    \/ /\ Len(s) >= 1
       /\ s[Len(s)] = "\n"
       /\ MatchBody(SubSeq(s, 1, Len(s) - 1))

validate_username(s) ==
    IF Len(s) = 0 \/ Len(s) > UsernameMaxLength
    THEN FALSE
    ELSE PatternMatch(s)

(***************************************************************************)
(* round(x / 3600, 1) and round(24 - x / 3600, 1), in tenths of an hour.    *)
(***************************************************************************)
TenthSeconds == SecondsPerHour \div 10

\* round half to even of n / TenthSeconds
RoundTenths(n) ==
    LET q == n \div TenthSeconds
        r == n % TenthSeconds
    IN  IF 2 * r < TenthSeconds THEN q
        ELSE IF 2 * r > TenthSeconds THEN q + 1
        ELSE IF q % 2 = 0 THEN q ELSE q + 1

cache_age_hours(t, lu) == RoundTenths(t - lu)
next_refresh_hours(t, lu) == RoundTenths(TTLHours * SecondsPerHour - (t - lu))

(***************************************************************************)
(* State.                                                                   *)
(***************************************************************************)
Handlers == 1..MaxReq
ObjIds == 1..(2 * MaxReq)
\* the report object a handler's synchronous fetch creates, and the one its
\* background refresh creates
SyncObj(h) == h
BgObj(h) == MaxReq + h

alice == <<"a">>
bob == <<"b">>
bad == <<"-", "a">>
Usernames == {alice, bob, bad}

NoInfo == [set |-> FALSE, cached |-> FALSE, age |-> 0, next |-> 0]
NoObject == [live |-> FALSE, username |-> <<>>, cache_info |-> NoInfo]
NoResp == [status |-> 0, error |-> "", rstatus |-> "", user |-> Absent,
           cached |-> FALSE, age |-> 0, next |-> 0, crashed |-> FALSE]
ReqInit == [kind |-> "none", user |-> <<>>, pc |-> "idle", chk |-> "none",
            chk2 |-> "none", data |-> Absent, fetched |-> FALSE,
            failed |-> FALSE, wrote |-> {}, wi |-> 1, alone |-> FALSE,
            rd |-> Absent, resp |-> NoResp]
BgInit == [user |-> <<>>, pc |-> "none", data |-> Absent, failed |-> FALSE,
           wrote |-> {}, wi |-> 1]

\* cache = {'data': None, 'last_updated': None, 'username': None}
CacheInit == [data |-> Absent, last_updated |-> Absent, username |-> Absent]

MainInit ==
    /\ cache = CacheInit
    /\ heap = [o \in ObjIds |-> NoObject]
    /\ now = 0
    /\ nreq = 0
    /\ req = [h \in Handlers |-> ReqInit]
    /\ bg = [h \in Handlers |-> BgInit]

\* no validator run is under way
ValidatorIdle ==
    /\ vin = <<>>
    /\ vres = FALSE
    /\ vpc = "off"

\* the states of get_user_repos, get_latest_release, get_packages and of the
\* batch statistics before any of them is called
GrIdle == [pc |-> "off", include_forks |-> FALSE, total |-> 0, forks |-> {},
           page |-> 1, repos |-> <<>>, log |-> <<>>]
RlIdle == [pc |-> "off", log |-> <<>>, release_data |-> <<>>,
           result |-> Absent]
PkIdle == [pc |-> "off", file |-> 1, name |-> FALSE, packages |-> <<>>,
           log |-> <<>>]
StIdle == [pc |-> "off", releases |-> <<>>, language |-> Absent,
           starred |-> Absent]

\* the states of categorize_projects, get_github_stats, the renderers and
\* analyze_multiple_users before any of them is called
CzIdle == [pc |-> "off", releases |-> <<>>, result |-> <<>>]
AgIdle == [pc |-> "off", listing |-> <<>>, clock |-> 0, repos |-> <<>>, i |-> 1,
           releases |-> <<>>, packages |-> <<>>, languages |-> <<>>,
           calls |-> <<>>, result |-> Absent]
RpIdle == [pc |-> "off", output_format |-> "", releases |-> <<>>,
           packages |-> <<>>, given |-> <<>>, shown_releases |-> <<>>,
           shown_packages |-> <<>>]
BaIdle == [pc |-> "off", usernames |-> <<>>, k |-> 1, all_reports |-> <<>>,
           files |-> {}, attempts |-> <<>>, combined |-> Absent,
           summary |-> Absent]
MoreIdle ==
    /\ cz = CzIdle
    /\ ag = AgIdle
    /\ rp = RpIdle
    /\ ba = BaIdle

\* no run of the remote data client or of the batch statistics is under way
LibIdle ==
    /\ op = "off"
    /\ gr = GrIdle
    /\ rl = RlIdle
    /\ pk = PkIdle
    /\ st = StIdle
    /\ MoreIdle

Init ==
    /\ MainInit
    /\ ValidatorIdle
    /\ LibIdle

(***************************************************************************)
(* Helpers shared by the handlers.                                          *)
(***************************************************************************)
Busy(g) == req[g].pc \notin {"idle", "done"} \/ bg[g].pc \notin {"none", "done"}

\* a request arrives: Flask runs its handler in a new thread.  "alone"
\* records whether any other request or refresh overlaps this one.
EnterReq(h, r) ==
    /\ nreq < MaxReq
    /\ h = nreq + 1
    /\ nreq' = h
    /\ req' = [g \in Handlers |->
                 IF g = h
                 THEN [r EXCEPT !.alone = \A o \in Handlers : ~Busy(o)]
                 ELSE IF Busy(g) THEN [req[g] EXCEPT !.alone = FALSE]
                 ELSE req[g]]

Respond(r, resp) == [r EXCEPT !.pc = "done", !.resp = resp]

\* jsonify({'error': 'Invalid username format'}), 400
Reject400 == [NoResp EXCEPT !.status = 400, !.error = "Invalid username format"]

\* an exception outside every try block: Flask answers through its 500 handler
Crash(r) ==
    Respond(r, [r.resp EXCEPT !.status = 500, !.error = "Internal server error",
                              !.crashed = TRUE])

\* get_github_stats(username, token): raises ValueError on a malformed
\* username, re-raises whatever the tracker raises, otherwise returns a new
\* report dictionary whose 'username' is the argument
GetGithubStats(u, outcome) ==
    IF ~validate_username(u) THEN "raise" ELSE outcome

NewReport(u) == [live |-> TRUE, username |-> u, cache_info |-> NoInfo]

Fields == {"data", "last_updated", "username"}

\* one assignment cache[f] = ...
StoreField(f, obj, u) ==
    CASE f = "data" -> [cache EXCEPT !.data = Some(obj)]
      [] f = "last_updated" -> [cache EXCEPT !.last_updated = Some(now)]
      [] f = "username" -> [cache EXCEPT !.username = Some(u)]

\* mutants: api_stats forgets to store the username; update() stores the
\* username before the timestamp
StatsOrderNoUsername == <<"data", "last_updated">>
UpdateOrderUserFirst == <<"data", "username", "last_updated">>

\* the order of the three assignments at each of the three writing sites
UpdateOrder == <<"data", "last_updated", "username">>
StatsOrder == <<"data", "last_updated", "username">>
RefreshOrder == <<"data", "last_updated", "username">>

(***************************************************************************)
(* The clock (datetime.now()).  An expression that reads the clock and one  *)
(* field of the slot, such as datetime.now() - cache['last_updated'], is    *)
(* one step: the clock does not advance inside it.                          *)
(***************************************************************************)
Tick ==
    /\ now < MaxTicks * TickStep
    /\ now' = now + TickStep
    /\ UNCHANGED <<cache, heap, nreq, req, bg, valVars, libVars>>

(***************************************************************************)
(* api_stats                                                                *)
(***************************************************************************)
ApiStatsEnter(h, u) ==
    /\ EnterReq(h, IF ~validate_username(u)
                   THEN Respond([ReqInit EXCEPT !.kind = "stats", !.user = u],
                                Reject400)
                   ELSE [ReqInit EXCEPT !.kind = "stats", !.user = u,
                                        !.pc = "chk_data"])
    /\ UNCHANGED <<cache, heap, now, bg, valVars, libVars>>

\* line 351: cache['data'] and ...
StatsCheckData(h) ==
    /\ req[h].pc = "chk_data"
    /\ req' = [req EXCEPT ![h] =
                 IF Present(cache.data)
                 THEN [@ EXCEPT !.pc = "chk_user"]
                 ELSE [@ EXCEPT !.pc = "spawn", !.chk = "data"]]
    /\ UNCHANGED <<cache, heap, now, nreq, bg, valVars, libVars>>

\* line 352: cache['username'] == username and ...
StatsCheckUser(h) ==
    /\ req[h].pc = "chk_user"
    /\ req' = [req EXCEPT ![h] =
                 IF cache.username = Some(req[h].user)
                 THEN [@ EXCEPT !.pc = "chk_lu"]
                 ELSE [@ EXCEPT !.pc = "spawn", !.chk = "user"]]
    /\ UNCHANGED <<cache, heap, now, nreq, bg, valVars, libVars>>

\* line 353: cache['last_updated'] and ...
StatsCheckLu(h) ==
    /\ req[h].pc = "chk_lu"
    /\ req' = [req EXCEPT ![h] =
                 IF Present(cache.last_updated)
                 THEN [@ EXCEPT !.pc = "chk_age"]
                 ELSE [@ EXCEPT !.pc = "spawn", !.chk = "lu"]]
    /\ UNCHANGED <<cache, heap, now, nreq, bg, valVars, libVars>>

\* mutant: a hit starts the background refresh before it answers
StatsCheckAgeSpawns(h) ==
    /\ req[h].pc = "chk_age"
    /\ Present(cache.last_updated)
    /\ IF now - Get(cache.last_updated) < CacheTTL
       THEN /\ req' = [req EXCEPT ![h] = [@ EXCEPT !.pc = "hit_copy", !.chk = "hit"]]
            /\ bg' = [bg EXCEPT ![h] = [BgInit EXCEPT !.user = req[h].user,
                                                      !.pc = "fetch"]]
       ELSE /\ req' = [req EXCEPT ![h] = [@ EXCEPT !.pc = "spawn", !.chk = "age"]]
            /\ bg' = bg
    /\ UNCHANGED <<cache, heap, now, nreq, valVars, libVars>>

\* line 354: (datetime.now() - cache['last_updated']).total_seconds() < 86400
StatsCheckAge(h) ==
    /\ req[h].pc = "chk_age"
    /\ req' = [req EXCEPT ![h] =
                 IF ~Present(cache.last_updated) THEN Crash(@)
                 ELSE IF now - Get(cache.last_updated) < CacheTTL
                 THEN [@ EXCEPT !.pc = "hit_copy", !.chk = "hit"]
                 ELSE [@ EXCEPT !.pc = "spawn", !.chk = "age"]]
    /\ UNCHANGED <<cache, heap, now, nreq, bg, valVars, libVars>>

\* response_data = cache['data'].copy()
AnswerCopy(r, nextpc) ==
    IF ~Present(cache.data) THEN Crash(r)
    ELSE [r EXCEPT !.pc = nextpc, !.rd = cache.data,
                   !.resp.user = Some(heap[Get(cache.data)].username)]

\* 'cache_age_hours': round((datetime.now() - cache['last_updated'])... / 3600, 1)
AnswerAge(r, nextpc) ==
    IF ~Present(cache.last_updated) THEN Crash(r)
    ELSE [r EXCEPT !.pc = nextpc,
                   !.resp.age = cache_age_hours(now, Get(cache.last_updated))]

\* 'next_refresh_hours': round(24 - (datetime.now() - cache['last_updated'])... / 3600, 1)
\* and return jsonify(response_data)
AnswerNext(r) ==
    IF ~Present(cache.last_updated) THEN Crash(r)
    ELSE Respond(r, [r.resp EXCEPT
                       !.status = 200, !.cached = TRUE,
                       !.next = next_refresh_hours(now, Get(cache.last_updated))])

\* mutant: the hit annotates the stored dictionary itself instead of a copy
StatsHitNextNoCopy(h) ==
    /\ req[h].pc = "hit_next"
    /\ Present(cache.last_updated)
    /\ req' = [req EXCEPT ![h] = AnswerNext(@)]
    /\ heap' = [heap EXCEPT ![Get(req[h].rd)].cache_info =
                  [set |-> TRUE, cached |-> TRUE, age |-> req[h].resp.age,
                   next |-> next_refresh_hours(now, Get(cache.last_updated))]]
    /\ UNCHANGED <<cache, now, nreq, bg, valVars, libVars>>

\* lines 356-362: the answer of a hit
StatsHitCopy(h) ==
    /\ req[h].pc = "hit_copy"
    /\ req' = [req EXCEPT ![h] = AnswerCopy(@, "hit_age")]
    /\ UNCHANGED <<cache, heap, now, nreq, bg, valVars, libVars>>

StatsHitAge(h) ==
    /\ req[h].pc = "hit_age"
    /\ req' = [req EXCEPT ![h] = AnswerAge(@, "hit_next")]
    /\ UNCHANGED <<cache, heap, now, nreq, bg, valVars, libVars>>

StatsHitNext(h) ==
    /\ req[h].pc = "hit_next"
    /\ req' = [req EXCEPT ![h] = AnswerNext(@)]
    /\ UNCHANGED <<cache, heap, now, nreq, bg, valVars, libVars>>

\* mutant: no background refresh is started
StatsSpawnNothing(h) ==
    /\ req[h].pc = "spawn"
    /\ req' = [req EXCEPT ![h].pc = "miss_data"]
    /\ UNCHANGED <<cache, heap, now, nreq, bg, valVars, libVars>>

\* line 365: update_cache_async(username, token) starts a daemon thread
StatsSpawn(h) ==
    /\ req[h].pc = "spawn"
    /\ bg' = [bg EXCEPT ![h] = [BgInit EXCEPT !.user = req[h].user, !.pc = "fetch"]]
    /\ req' = [req EXCEPT ![h].pc = "miss_data"]
    /\ UNCHANGED <<cache, heap, now, nreq, valVars, libVars>>

\* line 368: if not cache['data'] or ...
StatsMissData(h) ==
    /\ req[h].pc = "miss_data"
    /\ req' = [req EXCEPT ![h] =
                 IF ~Present(cache.data)
                 THEN [@ EXCEPT !.pc = "fetch", !.chk2 = "sync"]
                 ELSE [@ EXCEPT !.pc = "miss_user"]]
    /\ UNCHANGED <<cache, heap, now, nreq, bg, valVars, libVars>>

\* mutant: the second check also sends a stale entry to the synchronous fetch
StatsMissUserChecksAge(h) ==
    /\ req[h].pc = "miss_user"
    /\ req' = [req EXCEPT ![h] =
                 IF \/ cache.username # Some(req[h].user)
                    \/ /\ Present(cache.last_updated)
                       /\ now - Get(cache.last_updated) >= CacheTTL
                 THEN [@ EXCEPT !.pc = "fetch", !.chk2 = "sync"]
                 ELSE [@ EXCEPT !.pc = "ft_copy", !.chk2 = "cached"]]
    /\ UNCHANGED <<cache, heap, now, nreq, bg, valVars, libVars>>

\* line 368: ... cache['username'] != username
StatsMissUser(h) ==
    /\ req[h].pc = "miss_user"
    /\ req' = [req EXCEPT ![h] =
                 IF cache.username # Some(req[h].user)
                 THEN [@ EXCEPT !.pc = "fetch", !.chk2 = "sync"]
                 ELSE [@ EXCEPT !.pc = "ft_copy", !.chk2 = "cached"]]
    /\ UNCHANGED <<cache, heap, now, nreq, bg, valVars, libVars>>

\* data = get_github_stats(username, token) inside a handler's try block:
\* on success the new report is the local "data", on an exception the
\* handler answers failResp from its except clause
SyncFetch(h, failResp) ==
    /\ \E outcome \in {"ok", "raise"} :
         IF GetGithubStats(req[h].user, outcome) = "ok"
         THEN /\ heap' = [heap EXCEPT ![SyncObj(h)] = NewReport(req[h].user)]
              /\ req' = [req EXCEPT ![h] = [@ EXCEPT !.pc = "store", !.fetched = TRUE,
                                                     !.data = Some(SyncObj(h))]]
         ELSE /\ heap' = heap
              /\ req' = [req EXCEPT ![h] =
                           Respond([@ EXCEPT !.fetched = TRUE, !.failed = TRUE],
                                   failResp)]
    /\ UNCHANGED <<now, nreq, bg, valVars, libVars>>

\* jsonify({'error': str(e)}), 500
StatsError == [NoResp EXCEPT !.status = 500, !.error = "fetch failed"]

\* mutant: the slot's username is assigned before the fetch is attempted
StatsFetchStoresFirst(h) ==
    /\ req[h].pc = "fetch"
    /\ req[h].kind = "stats"
    /\ cache' = [cache EXCEPT !.username = Some(req[h].user)]
    /\ \E outcome \in {"ok", "raise"} :
         IF GetGithubStats(req[h].user, outcome) = "ok"
         THEN /\ heap' = [heap EXCEPT ![SyncObj(h)] = NewReport(req[h].user)]
              /\ req' = [req EXCEPT ![h] = [@ EXCEPT !.pc = "store", !.fetched = TRUE,
                                                     !.wrote = {"username"},
                                                     !.data = Some(SyncObj(h))]]
         ELSE /\ heap' = heap
              /\ req' = [req EXCEPT ![h] =
                           Respond([@ EXCEPT !.fetched = TRUE, !.failed = TRUE,
                                             !.wrote = {"username"}],
                                   StatsError)]
    /\ UNCHANGED <<now, nreq, bg, valVars, libVars>>

\* lines 369-370 and 380-382: data = get_github_stats(username, token)
StatsFetch(h) ==
    /\ req[h].pc = "fetch"
    /\ req[h].kind = "stats"
    /\ SyncFetch(h, StatsError)
    /\ cache' = cache

\* lines 371-373: the three assignments to the slot
StatsStore(h) ==
    /\ req[h].pc = "store"
    /\ req[h].kind = "stats"
    /\ LET f == StatsOrder[req[h].wi]
       IN  /\ cache' = StoreField(f, Get(req[h].data), req[h].user)
           /\ req' = [req EXCEPT ![h] =
                        [@ EXCEPT !.wrote = @ \cup {f}, !.wi = @ + 1,
                                  !.pc = IF req[h].wi = Len(StatsOrder)
                                         THEN "annotate" ELSE "store"]]
    /\ UNCHANGED <<heap, now, nreq, bg, valVars, libVars>>

\* lines 374-379: data['cache_info'] = {...}; return jsonify(data).  data is
\* the very object stored in the slot, so the annotation is stored with it.
StatsAnnotate(h) ==
    /\ req[h].pc = "annotate"
    /\ LET o == Get(req[h].data)
           info == [set |-> TRUE, cached |-> FALSE, age |-> 0, next |-> TTLHours * 10]
       IN  /\ heap' = [heap EXCEPT ![o].cache_info = info]
           /\ req' = [req EXCEPT ![h] =
                        Respond(@, [NoResp EXCEPT !.status = 200,
                                                  !.user = Some(heap[o].username),
                                                  !.cached = FALSE, !.age = 0,
                                                  !.next = TTLHours * 10])]
    /\ UNCHANGED <<cache, now, nreq, bg, valVars, libVars>>

\* lines 385-391: the answer from the existing entry
StatsFtCopy(h) ==
    /\ req[h].pc = "ft_copy"
    /\ req' = [req EXCEPT ![h] = AnswerCopy(@, "ft_age")]
    /\ UNCHANGED <<cache, heap, now, nreq, bg, valVars, libVars>>

StatsFtAge(h) ==
    /\ req[h].pc = "ft_age"
    /\ req' = [req EXCEPT ![h] = AnswerAge(@, "ft_next")]
    /\ UNCHANGED <<cache, heap, now, nreq, bg, valVars, libVars>>

StatsFtNext(h) ==
    /\ req[h].pc = "ft_next"
    /\ req' = [req EXCEPT ![h] = AnswerNext(@)]
    /\ UNCHANGED <<cache, heap, now, nreq, bg, valVars, libVars>>

\* mutant: api_refresh does not validate the username
ApiRefreshEnterNoValidate(h, u) ==
    /\ EnterReq(h, [ReqInit EXCEPT !.kind = "refresh", !.user = u, !.pc = "fetch"])
    /\ UNCHANGED <<cache, heap, now, bg, valVars, libVars>>

(***************************************************************************)
(* api_refresh                                                              *)
(***************************************************************************)
ApiRefreshEnter(h, u) ==
    /\ EnterReq(h, IF ~validate_username(u)
                   THEN Respond([ReqInit EXCEPT !.kind = "refresh", !.user = u],
                                Reject400)
                   ELSE [ReqInit EXCEPT !.kind = "refresh", !.user = u,
                                        !.pc = "fetch"])
    /\ UNCHANGED <<cache, heap, now, bg, valVars, libVars>>

\* jsonify({'status': 'error', 'message': 'Unable to refresh data'}), 500
RefreshError == [NoResp EXCEPT !.status = 500, !.rstatus = "error"]
\* jsonify({'status': 'success', 'message': 'Data refreshed'})
RefreshSuccess == [NoResp EXCEPT !.status = 200, !.rstatus = "success"]

\* mutant: a fresh entry for the same username is not fetched again
RefreshFetchShortCircuit(h) ==
    /\ req[h].pc = "fetch"
    /\ req[h].kind = "refresh"
    /\ cache' = cache
    /\ IF /\ Present(cache.data)
          /\ cache.username = Some(req[h].user)
          /\ Present(cache.last_updated)
          /\ now - Get(cache.last_updated) < CacheTTL
       THEN /\ req' = [req EXCEPT ![h] = Respond(@, RefreshSuccess)]
            /\ UNCHANGED <<heap, now, nreq, bg, valVars, libVars>>
       ELSE SyncFetch(h, RefreshError)

\* lines 404-405 and 411-414
RefreshFetch(h) ==
    /\ req[h].pc = "fetch"
    /\ req[h].kind = "refresh"
    /\ SyncFetch(h, RefreshError)
    /\ cache' = cache

\* lines 406-410
RefreshStore(h) ==
    /\ req[h].pc = "store"
    /\ req[h].kind = "refresh"
    /\ LET f == RefreshOrder[req[h].wi]
           r == [req[h] EXCEPT !.wrote = @ \cup {f}, !.wi = @ + 1]
       IN  /\ cache' = StoreField(f, Get(req[h].data), req[h].user)
           /\ req' = [req EXCEPT ![h] =
                        IF req[h].wi = Len(RefreshOrder)
                        THEN Respond(r, RefreshSuccess)
                        ELSE r]
    /\ UNCHANGED <<heap, now, nreq, bg, valVars, libVars>>

(***************************************************************************)
(* update_cache_async.update: the background thread                         *)
(***************************************************************************)
\* mutant: a failed background fetch resets the slot
BgFetchClearsOnError(b) ==
    /\ bg[b].pc = "fetch"
    /\ \E outcome \in {"ok", "raise"} :
         IF GetGithubStats(bg[b].user, outcome) = "ok"
         THEN /\ heap' = [heap EXCEPT ![BgObj(b)] = NewReport(bg[b].user)]
              /\ bg' = [bg EXCEPT ![b] = [@ EXCEPT !.pc = "store",
                                                   !.data = Some(BgObj(b))]]
              /\ cache' = cache
         ELSE /\ heap' = heap
              /\ bg' = [bg EXCEPT ![b] = [@ EXCEPT !.pc = "done", !.failed = TRUE]]
              /\ cache' = CacheInit
    /\ UNCHANGED <<now, nreq, req, valVars, libVars>>

\* lines 321-322 and 327-328
BgFetch(b) ==
    /\ bg[b].pc = "fetch"
    /\ \E outcome \in {"ok", "raise"} :
         IF GetGithubStats(bg[b].user, outcome) = "ok"
         THEN /\ heap' = [heap EXCEPT ![BgObj(b)] = NewReport(bg[b].user)]
              /\ bg' = [bg EXCEPT ![b] = [@ EXCEPT !.pc = "store",
                                                   !.data = Some(BgObj(b))]]
         ELSE /\ heap' = heap
              /\ bg' = [bg EXCEPT ![b] = [@ EXCEPT !.pc = "done", !.failed = TRUE]]
    /\ UNCHANGED <<cache, now, nreq, req, valVars, libVars>>

\* lines 323-326
BgStore(b) ==
    /\ bg[b].pc = "store"
    /\ LET f == UpdateOrder[bg[b].wi]
       IN  /\ cache' = StoreField(f, Get(bg[b].data), bg[b].user)
           /\ bg' = [bg EXCEPT ![b] =
                       [@ EXCEPT !.wrote = @ \cup {f}, !.wi = @ + 1,
                                 !.pc = IF bg[b].wi = Len(UpdateOrder)
                                        THEN "done" ELSE "store"]]
    /\ UNCHANGED <<heap, now, nreq, req, valVars, libVars>>

Next ==
    \/ Tick
    \/ \E h \in Handlers, u \in Usernames : ApiStatsEnter(h, u)
    \/ \E h \in Handlers : StatsCheckData(h)
    \/ \E h \in Handlers : StatsCheckUser(h)
    \/ \E h \in Handlers : StatsCheckLu(h)
    \/ \E h \in Handlers : StatsCheckAge(h)
    \/ \E h \in Handlers : StatsHitCopy(h)
    \/ \E h \in Handlers : StatsHitAge(h)
    \/ \E h \in Handlers : StatsHitNext(h)
    \/ \E h \in Handlers : StatsSpawn(h)
    \/ \E h \in Handlers : StatsMissData(h)
    \/ \E h \in Handlers : StatsMissUser(h)
    \/ \E h \in Handlers : StatsFetch(h)
    \/ \E h \in Handlers : StatsStore(h)
    \/ \E h \in Handlers : StatsAnnotate(h)
    \/ \E h \in Handlers : StatsFtCopy(h)
    \/ \E h \in Handlers : StatsFtAge(h)
    \/ \E h \in Handlers : StatsFtNext(h)
    \/ \E h \in Handlers, u \in Usernames : ApiRefreshEnter(h, u)
    \/ \E h \in Handlers : RefreshFetch(h)
    \/ \E h \in Handlers : RefreshStore(h)
    \/ \E b \in Handlers : BgFetch(b)
    \/ \E b \in Handlers : BgStore(b)

Spec == Init /\ [][Next]_vars

(***************************************************************************)
(* The validator on its own: every short string over the alphabet, and      *)
(* strings around the length limit, are handed to validate_username.        *)
(***************************************************************************)
Strings(n) == UNION {[1..k -> Alphabet] : k \in 0..n}
Pad(n) == [i \in 1..n |-> "a"]
LongInputs ==
    {Pad(n) \o t : n \in (UsernameMaxLength - 3)..(UsernameMaxLength + 1),
                   t \in Strings(2)}
ValidatorInputs == Strings(MaxLen) \cup LongInputs

InitValidate ==
    /\ MainInit
    /\ vin \in ValidatorInputs
    /\ vres = FALSE
    /\ vpc = "call"
    /\ LibIdle

ValidateCall ==
    /\ vpc = "call"
    /\ vres' = validate_username(vin)
    /\ vpc' = "ret"
    /\ UNCHANGED <<webVars, vin, libVars>>

NextValidate == ValidateCall

SpecValidate == InitValidate /\ [][NextValidate]_vars

(***************************************************************************)
(* Properties.                                                              *)
(***************************************************************************)
Done(h) == req[h].pc = "done"
IsStats(h) == req[h].kind = "stats"
IsRefresh(h) == req[h].kind = "refresh"
Spawned(h) == bg[h].pc # "none"
Quiescent == \A g \in Handlers : ~Busy(g)
ReportUser(slot) == heap[Get(slot.data)].username

\* C1: the slot is replaced as a whole.  Stated for the states in which no
\* thread is between its first and its last assignment to the slot (every
\* handler and background thread has finished), which the claim's "every
\* reachable state" includes: whenever the slot's username is present, the
\* stored report is the one of that username.
C1_SlotOfOneWriter ==
    (Quiescent /\ Present(cache.username)) =>
        /\ Present(cache.data)
        /\ Present(cache.last_updated)
        /\ ReportUser(cache) = Get(cache.username)

\* C2 as stated: a request that finds the stored username equal and the
\* timestamp 24 hours old or more fetches synchronously, and on success
\* overwrites the slot and answers uncached.
C2_StaleFetchesSynchronously ==
    \A h \in Handlers :
        (Done(h) /\ IsStats(h) /\ req[h].chk = "age") =>
            /\ req[h].fetched
            /\ ~req[h].failed =>
                 /\ req[h].wrote = Fields
                 /\ req[h].resp.status = 200
                 /\ ~req[h].resp.cached

\* C2 amended: a request that finds the stored username equal and the
\* timestamp 24 hours old or more starts one background refresh; when the
\* second check still finds data for that username (always, when no other
\* request overlaps) it fetches nothing, writes nothing and answers from the
\* slot annotated cached = true.
C2_StaleServedFromSlot ==
    \A h \in Handlers :
        (Done(h) /\ IsStats(h) /\ req[h].chk = "age") =>
            /\ Spawned(h)
            /\ req[h].alone => req[h].chk2 = "cached"
            /\ req[h].chk2 = "cached" =>
                 /\ ~req[h].fetched
                 /\ req[h].wrote = {}
                 /\ req[h].resp.status = 200
                 /\ req[h].resp.cached
                 /\ Present(req[h].resp.user)
            /\ req[h].chk2 = "sync" => req[h].fetched

\* a stale entry has been answered as a cached response 24 hours old or more
C2_Witness ==
    \E h \in Handlers :
        /\ Done(h) /\ IsStats(h) /\ req[h].chk = "age"
        /\ req[h].resp.status = 200
        /\ req[h].resp.cached
        /\ req[h].resp.age >= TTLHours * 10

UncachedAnswer(h) ==
    /\ req[h].fetched
    /\ req[h].wrote = Fields
    /\ req[h].resp.status = 200
    /\ ~req[h].resp.cached
    /\ req[h].resp.age = 0
    /\ req[h].resp.next = TTLHours * 10
    /\ req[h].resp.user = Some(req[h].user)

\* C3 as stated: a request that finds the slot empty or holding another
\* username fetches synchronously and, unless the fetch fails, overwrites
\* the three fields and answers cached = false, age 0, next refresh 24.
C3_MissFetchesSynchronously ==
    \A h \in Handlers :
        (Done(h) /\ IsStats(h) /\ req[h].chk \in {"data", "user"}
                 /\ ~req[h].failed) => UncachedAnswer(h)

\* C3 amended: such a request starts a background refresh and then looks at
\* the slot again; if the slot is still empty or holds another username it
\* fetches synchronously and, when the fetch succeeds, overwrites the three
\* fields and answers cached = false, age 0, next refresh 24; if the slot by
\* then holds data for the requested username it answers from the slot with
\* cached = true and no fetch of its own.  When no other request overlaps
\* and one of the two fetches succeeded, the slot afterwards holds the
\* requested username and its report.
C3_MissFetchesUnlessRefreshed ==
    \A h \in Handlers :
        (Done(h) /\ IsStats(h) /\ req[h].chk \in {"data", "user"}) =>
            /\ Spawned(h)
            /\ (req[h].chk2 = "sync" /\ ~req[h].failed) => UncachedAnswer(h)
            /\ req[h].chk2 = "cached" =>
                 /\ ~req[h].fetched
                 /\ req[h].wrote = {}
                 /\ req[h].resp.status = 200
                 /\ req[h].resp.cached
            /\ (req[h].alone /\ nreq = h /\ Quiescent
                  /\ (~req[h].failed \/ ~bg[h].failed)) =>
                 /\ cache.username = Some(req[h].user)
                 /\ Present(cache.data)
                 /\ ReportUser(cache) = req[h].user

\* a miss on another user's entry, fetched synchronously and answered
\* uncached, with nothing else in flight and the slot now holding the
\* requested user
C3_Witness ==
    \E h \in Handlers :
        /\ Done(h) /\ IsStats(h) /\ req[h].chk = "user"
        /\ req[h].chk2 = "sync" /\ UncachedAnswer(h)
        /\ req[h].alone /\ Quiescent
        /\ cache.username = Some(req[h].user)

HitAnswer(h) ==
    /\ req[h].resp.status = 200
    /\ req[h].resp.cached
    /\ Present(req[h].resp.user)
    /\ ~req[h].fetched
    /\ req[h].wrote = {}
    /\ bg[h].pc = "none"

\* C4: a request whose hit check succeeds (same username, age < 24h) answers
\* 200 with the stored report annotated cached = true, without a fetch and
\* without a refresh to wait for, and no step it takes after the check
\* changes the slot or the stored report.
C4_HitAnswersFromSlot ==
    /\ [](\A h \in Handlers : (Done(h) /\ req[h].chk = "hit") => HitAnswer(h))
    /\ [][\A h \in Handlers :
            (req[h].chk = "hit" /\ req'[h] # req[h]) =>
                (cache' = cache /\ heap' = heap)]_vars

\* a hit has been answered, with a cache age of half a day
C4_Witness ==
    \E h \in Handlers :
        /\ Done(h) /\ req[h].chk = "hit" /\ HitAnswer(h)
        /\ req[h].resp.age = cache_age_hours(TickStep, 0)

\* C5 as stated: every hit starts one background refresh.
C5_HitSpawnsRefresh ==
    \A h \in Handlers : (Done(h) /\ req[h].chk = "hit") => Spawned(h)

\* C5 amended: a hit starts no background refresh; a background refresh is
\* started by exactly the api_stats requests whose hit check failed.
C5_OnlyMissSpawnsRefresh ==
    \A h \in Handlers :
        /\ req[h].chk = "hit" => ~Spawned(h)
        /\ (Done(h) /\ req[h].chk \in {"data", "user", "lu", "age"}) => Spawned(h)
        /\ Spawned(h) => (IsStats(h) /\ req[h].chk \in {"data", "user", "lu", "age"})

\* a hit has been answered and no refresh was started for it
C5_Witness ==
    \E h \in Handlers :
        Done(h) /\ req[h].chk = "hit" /\ req[h].resp.status = 200 /\ ~Spawned(h)

\* C6: api_refresh with a valid username always fetches; when the fetch
\* succeeds it writes the three fields and answers "success", otherwise it
\* answers "error".
C6_RefreshAlwaysFetches ==
    \A h \in Handlers :
        (Done(h) /\ IsRefresh(h) /\ validate_username(req[h].user)) =>
            /\ req[h].fetched
            /\ ~req[h].failed =>
                 /\ req[h].wrote = Fields
                 /\ req[h].resp.status = 200
                 /\ req[h].resp.rstatus = "success"
            /\ req[h].failed => req[h].resp.rstatus = "error"

SlotFreshFor(u) ==
    /\ Present(cache.data)
    /\ cache.username = Some(u)
    /\ Present(cache.last_updated)
    /\ now - Get(cache.last_updated) < CacheTTL

\* api_refresh has fetched although the slot holds a fresh entry for the
\* same username
C6_Witness ==
    \E h \in Handlers :
        /\ IsRefresh(h) /\ req[h].pc = "store" /\ req[h].wi = 1
        /\ SlotFreshFor(req[h].user)

\* C7: a request whose username fails validate_username is answered 400
\* "Invalid username format" at once, with no fetch, no background refresh
\* and no write to the slot.
C7_MalformedRejected ==
    \A h \in Handlers :
        (req[h].pc # "idle" /\ ~validate_username(req[h].user)) =>
            /\ Done(h)
            /\ req[h].resp.status = 400
            /\ req[h].resp.error = "Invalid username format"
            /\ ~req[h].fetched
            /\ ~Spawned(h)
            /\ req[h].wrote = {}

\* both endpoints have rejected a malformed username
C7_Witness ==
    \E h, g \in Handlers :
        /\ Done(h) /\ IsStats(h) /\ req[h].user = bad /\ req[h].resp.status = 400
        /\ Done(g) /\ IsRefresh(g) /\ req[g].user = bad /\ req[g].resp.status = 400

\* the username format of the specification: 1 to 39 characters, letters,
\* digits and hyphens only, no hyphen first or last
WellFormed(s) ==
    /\ Len(s) >= 1
    /\ Len(s) <= UsernameMaxLength
    /\ \A i \in 1..Len(s) : s[i] \in Letters \cup Digits \cup {"-"}
    /\ s[1] # "-"
    /\ s[Len(s)] # "-"

\* C8: validate_username accepts exactly the well-formed usernames.
C8_ValidateIffWellFormed ==
    vpc = "ret" => (vres <=> WellFormed(vin))

\* C9: a failed fetch writes nothing: the handler answers 500 (api_stats
\* with an error message, api_refresh with status "error"), the background
\* thread ends, and neither has written any field of the slot.
C9_FailedFetchWritesNothing ==
    /\ \A h \in Handlers :
         req[h].failed =>
            /\ Done(h)
            /\ req[h].wrote = {}
            /\ req[h].resp.status = 500
            /\ ~req[h].resp.crashed
            /\ IsStats(h) => req[h].resp.error # ""
            /\ IsRefresh(h) => req[h].resp.rstatus = "error"
    /\ \A b \in Handlers :
         bg[b].failed => (bg[b].pc = "done" /\ bg[b].wrote = {})

\* a request and a background thread failed, the slot is still empty, and a
\* later request has been served
C9_Witness ==
    \E h, g \in Handlers :
        /\ h < g
        /\ req[h].failed /\ bg[h].failed
        /\ Done(g) /\ req[g].resp.status = 200

\* C10: no handler ever reads an absent data or last_updated when it answers
\* from the slot (no request ends in an unhandled exception).
C10_NoAbsentDereference ==
    \A h \in Handlers : ~req[h].resp.crashed

\* a handler has answered from the slot while a background thread was
\* between its assignments to the slot
C10_Witness ==
    \E h, b \in Handlers :
        /\ Done(h) /\ req[h].chk2 = "cached" /\ req[h].resp.status = 200
        /\ bg[b].pc = "store" /\ bg[b].wi > 1

\* C11: the slot is empty (all three fields absent) until a thread holding a
\* successfully fetched report writes it; a field, once set, is never absent
\* again; every change of the slot is one assignment by a thread that holds
\* the report of a successful fetch for its own user, and the timestamp
\* never goes back.
HoldsFetched(t) ==
    /\ t.pc = "store"
    /\ Present(t.data)
    /\ heap[Get(t.data)].live
    /\ heap[Get(t.data)].username = t.user
OverwrittenBy(t) ==
    \/ cache' = [cache EXCEPT !.data = t.data]
    \/ cache' = [cache EXCEPT !.last_updated = {now}]
    \/ cache' = [cache EXCEPT !.username = {t.user}]
NoWriteYet == \A h \in Handlers : req[h].wrote = {} /\ bg[h].wrote = {}
SlotStep ==
    /\ \A f \in Fields : Present(cache[f]) => Present(cache'[f])
    /\ Present(cache.last_updated) =>
          Get(cache'.last_updated) >= Get(cache.last_updated)
    /\ cache' # cache =>
          \E h \in Handlers :
              \/ HoldsFetched(req[h]) /\ req'[h] # req[h] /\ OverwrittenBy(req[h])
              \/ HoldsFetched(bg[h]) /\ bg'[h] # bg[h] /\ OverwrittenBy(bg[h])
CallOutcomes == {"ok", "non200", "exception", "badjson"}

ClientOps == {"repos", "release", "packages"}

(***************************************************************************)
(* get_user_repos.  The provider holds a listing of gr.total repositories,  *)
(* named by their position; gr.forks are the positions whose 'fork' flag    *)
(* is set; page p of the listing holds positions (p-1)*100+1 .. p*100.      *)
(***************************************************************************)
Min(a, b) == IF a < b THEN a ELSE b
Max(a, b) == IF a > b THEN a ELSE b

\* the listing sizes and fork positions that are tried: around every page
\* boundary
Totals ==
    {n \in 0..(MaxPages * PerPage + 1) :
        \E k \in 0..MaxPages, d \in {-1, 0, 1} : n = k * PerPage + d}
ForkSpots(n) ==
    {i \in 1..n : \E k \in 0..MaxPages : i = k * PerPage \/ i = k * PerPage + 1}

\* response.json() of the request for page p with per_page = 100
ProviderPage(total, p) ==
    [i \in 1..Max(0, Min(PerPage, total - (p - 1) * PerPage)) |->
        (p - 1) * PerPage + i]

\* mutant: the fork filter keeps every repository
FilterForksKeepsAll(page_repos, forks) == page_repos

\* [repo for repo in page_repos if not repo['fork']]
FilterForks(page_repos, forks) ==
    LET NotFork(i) == i \notin forks
    IN  SelectSeq(page_repos, NotFork)

\* mutant: a failed listing call throws away what was accumulated
OnListingErrorDropsAll(g) == [g EXCEPT !.pc = "done", !.repos = <<>>]

\* status_code != 200: print the error, break, return repos
OnListingError(g) == [g EXCEPT !.pc = "done"]

\* mutant: the page number is not advanced
NextPageSame(page) == page

\* line 88: page += 1
NextPage(page) == page + 1

GrLog(g, outcome, n) ==
    Append(g.log, [page |-> g.page, outcome |-> outcome, n |-> n])

\* one iteration of the while loop
GetUserReposPage(outcome) ==
    /\ op = "repos"
    /\ gr.pc = "loop"
    /\ gr' =
         CASE outcome = "exception" ->
                [gr EXCEPT !.pc = "raised", !.log = GrLog(gr, outcome, 0)]
           [] outcome = "non200" ->
                OnListingError([gr EXCEPT !.log = GrLog(gr, outcome, 0)])
           [] outcome = "badjson" ->
                [gr EXCEPT !.pc = "raised", !.log = GrLog(gr, outcome, 0)]
           [] outcome = "ok" ->
                LET page_repos == ProviderPage(gr.total, gr.page)
                    kept == IF gr.include_forks THEN page_repos
                            ELSE FilterForks(page_repos, gr.forks)
                    g == [gr EXCEPT !.log = GrLog(gr, outcome, Len(page_repos))]
                IN  IF page_repos = <<>>
                    THEN [g EXCEPT !.pc = "done"]
                    ELSE [g EXCEPT !.repos = @ \o kept,
                                   !.page = NextPage(@),
                                   !.pc = IF Len(kept) < PerPage
                                          THEN "done" ELSE "loop"]
    /\ UNCHANGED <<webVars, valVars, moreVars, op, rl, pk, st>>

\* the calls get_user_repos(username, include_forks) that are tried
GrInits ==
    UNION {{[GrIdle EXCEPT !.pc = "loop", !.include_forks = inc, !.total = n,
                           !.forks = f] :
               inc \in BOOLEAN, f \in SUBSET ForkSpots(n)} : n \in Totals}

(***************************************************************************)
(* get_latest_release.  An asset is the value of its 'download_count' key,  *)
(* absent when the key is missing; repo_info is the metadata document,      *)
(* each key absent when missing or null.                                    *)
(***************************************************************************)
AssetCounts == {Absent, Some(2), Some(5)}
AssetLists == UNION {[1..n -> AssetCounts] : n \in 0..MaxAssets}
RepoInfos ==
    [language : {Absent, Some("Go")}, stargazers_count : {Absent, Some(7)},
     forks_count : {Absent, Some(3)}]
\* {} : the metadata document when the metadata call is not a 200
EmptyInfo ==
    [language |-> Absent, stargazers_count |-> Absent, forks_count |-> Absent]

\* d.get(key, default)
GetOr(v, default) == IF Present(v) THEN Get(v) ELSE default

\* mutant: only the first asset is counted
SumDownloadsFirstOnly(assets) ==
    IF assets = <<>> THEN 0 ELSE GetOr(Head(assets), 0)

\* sum(asset.get('download_count', 0) for asset in assets)
RECURSIVE SumDownloads(_)
SumDownloads(assets) ==
    IF assets = <<>> THEN 0
    ELSE GetOr(Head(assets), 0) + SumDownloads(Tail(assets))

\* the ReleaseInfo built at lines 115-126
ReleaseInfo(release_data, repo_info) ==
    [download_count |-> SumDownloads(release_data),
     language |-> GetOr(repo_info.language, "Unknown"),
     stars |-> GetOr(repo_info.stargazers_count, 0),
     forks |-> GetOr(repo_info.forks_count, 0)]

RlLog(r, call, outcome) == Append(r.log, [call |-> call, outcome |-> outcome])

\* lines 98-105: the latest-release call
ReleaseCall(outcome) ==
    /\ op = "release"
    /\ rl.pc = "release"
    /\ \E assets \in AssetLists :
         rl' =
           CASE outcome = "exception" ->
                  [rl EXCEPT !.pc = "raised", !.log = RlLog(rl, "release", outcome)]
             [] outcome = "non200" ->
                  [rl EXCEPT !.pc = "done", !.log = RlLog(rl, "release", outcome)]
             [] outcome = "badjson" ->
                  [rl EXCEPT !.pc = "raised", !.log = RlLog(rl, "release", outcome)]
             [] outcome = "ok" ->
                  [rl EXCEPT !.pc = "metadata", !.release_data = assets,
                             !.log = RlLog(rl, "release", outcome)]
    /\ UNCHANGED <<webVars, valVars, moreVars, op, gr, pk, st>>

\* lines 107-126: the metadata call and the construction of the result
MetadataCall(outcome) ==
    /\ op = "release"
    /\ rl.pc = "metadata"
    /\ \E info \in RepoInfos :
         rl' =
           CASE outcome = "exception" ->
                  [rl EXCEPT !.pc = "raised", !.log = RlLog(rl, "metadata", outcome)]
             [] outcome = "non200" ->
                  [rl EXCEPT !.pc = "done", !.log = RlLog(rl, "metadata", outcome),
                             !.result = Some(ReleaseInfo(rl.release_data, EmptyInfo))]
             [] outcome = "badjson" ->
                  [rl EXCEPT !.pc = "raised", !.log = RlLog(rl, "metadata", outcome)]
             [] outcome = "ok" ->
                  [rl EXCEPT !.pc = "done", !.log = RlLog(rl, "metadata", outcome),
                             !.result = Some(ReleaseInfo(rl.release_data, info))]
    /\ UNCHANGED <<webVars, valVars, moreVars, op, gr, pk, st>>

(***************************************************************************)
(* get_packages.  A manifest body that arrived with a 200 either decodes    *)
(* and names a package, decodes without a name, or fails to decode.         *)
(***************************************************************************)
Bodies == {"named", "unnamed", "garbled"}
\* the version a registry document carries, absent when the key is missing
RegistryVersions == {Absent, Some("1.0")}

\* python_files, line 163
PythonFiles == <<"setup.py", "pyproject.toml", "setup.cfg">>

PackageInfo(type, version, url) ==
    [package_type |-> type, latest_version |-> version, package_url |-> url]
\* the record of lines 202-208, 211-217 and 222-228
Placeholder == PackageInfo("python", "Unknown", "github")

PkLog(k, call, outcome) == Append(k.log, [call |-> call, outcome |-> outcome])

\* mutant: the loop over python_files goes on after a manifest was found
AfterFoundNoBreak(k) ==
    IF k.file < Len(PythonFiles)
    THEN [k EXCEPT !.pc = "py", !.file = @ + 1]
    ELSE [k EXCEPT !.pc = "done"]

\* line 232: break, then return packages
AfterFound(k) == [k EXCEPT !.pc = "done"]

\* mutant: the handler of the Python block passes, as the npm one does
OnPythonErrorPass(k) == AfterFound(k)

\* lines 220-228: except Exception: append the placeholder
OnPythonError(k) == AfterFound([k EXCEPT !.packages = Append(@, Placeholder)])

\* lines 133-160, up to the registry call
NpmContentsCall(outcome) ==
    /\ op = "packages"
    /\ pk.pc = "npm"
    /\ \E body \in Bodies :
         pk' =
           LET k == [pk EXCEPT !.log = PkLog(pk, "package.json", outcome)]
           IN  CASE outcome = "exception" -> [k EXCEPT !.pc = "raised"]
                 [] outcome = "non200" -> [k EXCEPT !.pc = "py"]
                 [] outcome = "badjson" -> [k EXCEPT !.pc = "py"]
                 [] outcome = "ok" ->
                      IF body = "named" THEN [k EXCEPT !.pc = "npm_registry"]
                      ELSE [k EXCEPT !.pc = "py"]
    /\ UNCHANGED <<webVars, valVars, moreVars, op, gr, rl, st>>

\* lines 144-160: the registry call, inside the try block
NpmRegistryCall(outcome) ==
    /\ op = "packages"
    /\ pk.pc = "npm_registry"
    /\ \E v \in RegistryVersions :
         pk' =
           LET k == [pk EXCEPT !.log = PkLog(pk, "npm_registry", outcome),
                               !.pc = "py"]
           IN  IF outcome = "ok"
               THEN [k EXCEPT !.packages =
                        Append(@, PackageInfo("npm", GetOr(v, "Unknown"), "npmjs"))]
               ELSE k
    /\ UNCHANGED <<webVars, valVars, moreVars, op, gr, rl, st>>

\* lines 164-188 and 209-232: the contents call for python_files[pk.file]
ManifestCall(outcome) ==
    /\ op = "packages"
    /\ pk.pc = "py"
    /\ \E body \in Bodies :
         pk' =
           LET file == PythonFiles[pk.file]
               k == [pk EXCEPT !.log = PkLog(pk, file, outcome)]
           IN  CASE outcome = "exception" -> [k EXCEPT !.pc = "raised"]
                 [] outcome = "non200" ->
                      IF pk.file < Len(PythonFiles)
                      THEN [k EXCEPT !.file = @ + 1]
                      ELSE [k EXCEPT !.pc = "done"]
                 [] outcome \in {"ok", "badjson"} ->
                      IF file = "setup.cfg"
                      THEN AfterFound([k EXCEPT !.packages = Append(@, Placeholder)])
                      ELSE IF outcome = "badjson" \/ body = "garbled"
                      THEN OnPythonError(k)
                      ELSE IF body = "named"
                      THEN [k EXCEPT !.pc = "pypi", !.name = TRUE]
                      ELSE AfterFound([k EXCEPT !.packages = Append(@, Placeholder)])
    /\ UNCHANGED <<webVars, valVars, moreVars, op, gr, rl, st>>

\* lines 189-208 and 220-232: the PyPI lookup, inside the try block
PyPiCall(outcome) ==
    /\ op = "packages"
    /\ pk.pc = "pypi"
    /\ \E v \in RegistryVersions :
         pk' =
           LET k == [pk EXCEPT !.log = PkLog(pk, "pypi", outcome)]
           IN  CASE outcome = "exception" -> OnPythonError(k)
                 [] outcome = "badjson" -> OnPythonError(k)
                 [] outcome = "non200" ->
                      AfterFound([k EXCEPT !.packages = Append(@, Placeholder)])
                 [] outcome = "ok" ->
                      AfterFound([k EXCEPT !.packages =
                         Append(@, PackageInfo("python", GetOr(v, "Unknown"), "pypi"))])
    /\ UNCHANGED <<webVars, valVars, moreVars, op, gr, rl, st>>

(***************************************************************************)
(* One run of one operation of the client.                                  *)
(***************************************************************************)
InitClient ==
    /\ MainInit
    /\ ValidatorIdle
    /\ MoreIdle
    /\ st = StIdle
    /\ op \in ClientOps
    /\ gr \in IF op = "repos" THEN GrInits ELSE {GrIdle}
    /\ rl = IF op = "release" THEN [RlIdle EXCEPT !.pc = "release"] ELSE RlIdle
    /\ pk = IF op = "packages" THEN [PkIdle EXCEPT !.pc = "npm"] ELSE PkIdle

NextClient ==
    \/ \E outcome \in CallOutcomes : GetUserReposPage(outcome)
    \/ \E outcome \in CallOutcomes : ReleaseCall(outcome)
    \/ \E outcome \in CallOutcomes : MetadataCall(outcome)
    \/ \E outcome \in CallOutcomes : NpmContentsCall(outcome)
    \/ \E outcome \in CallOutcomes : NpmRegistryCall(outcome)
    \/ \E outcome \in CallOutcomes : ManifestCall(outcome)
    \/ \E outcome \in CallOutcomes : PyPiCall(outcome)

SpecClient == InitClient /\ [][NextClient]_vars

\* the same calls, each call running on until it returns or raises: the
\* caller's thread is never suspended for ever inside the loop
SpecClientFair == SpecClient /\ WF_vars(NextClient)

(***************************************************************************)
(* Properties of the remote data client.                                    *)
(***************************************************************************)
Range(q) == {q[j] : j \in 1..Len(q)}
Is200(outcome) == outcome \in {"ok", "badjson"}
GrReturned == op = "repos" /\ gr.pc = "done"
LastListing == gr.log[Len(gr.log)]
Increasing(q) == \A j \in 1..(Len(q) - 1) : q[j] < q[j + 1]

\* C12: get_user_repos stops only after a non-200 answer or after a page
\* that the provider returned with fewer than 100 entries (none included),
\* and, when no call failed and forks are excluded, every repository of the
\* listing that is not a fork is in the result.
C12_StopsOnlyOnShortProviderPage ==
    GrReturned =>
        /\ LastListing.outcome = "non200" \/ LastListing.n < PerPage
        /\ (~gr.include_forks /\ \A j \in 1..Len(gr.log) : gr.log[j].outcome = "ok")
              => \A i \in 1..gr.total : i \notin gr.forks => i \in Range(gr.repos)

\* the concatenation of the pages the provider delivered
RECURSIVE PagesRead(_, _)
PagesRead(log, total) ==
    IF log = <<>> THEN <<>>
    ELSE LET e == log[Len(log)]
         IN  PagesRead(SubSeq(log, 1, Len(log) - 1), total)
               \o (IF e.outcome = "ok" THEN ProviderPage(total, e.page) ELSE <<>>)

\* C13: with include_forks = false the result holds no repository whose fork
\* flag is set; with include_forks = true it is exactly the repositories of
\* the pages that were read, in page order.
C13_ForksFilteredOrAllKept ==
    GrReturned =>
        /\ ~gr.include_forks => \A j \in 1..Len(gr.repos) : gr.repos[j] \notin gr.forks
        /\ gr.include_forks => gr.repos = PagesRead(gr.log, gr.total)
\* forks were excluded, two pages were read, a fork was among them and
\* something was returned
C13_Witness ==
    /\ GrReturned /\ ~gr.include_forks
    /\ Len(gr.log) >= 2 /\ gr.log[2].outcome = "ok" /\ gr.log[2].n > 0
    /\ \E i \in gr.forks : i <= gr.total
    /\ gr.repos # <<>>

\* C14: no exception leaves get_user_repos, get_latest_release or
\* get_packages, whatever a remote call does.
C14_NoExceptionPropagates ==
    /\ gr.pc # "raised"
    /\ rl.pc # "raised"
    /\ pk.pc # "raised"

\* C15: when the listing call for page k is not a 200 the operation returns
\* (it does not raise) exactly what pages 1..k-1 contributed, in order, which
\* is the empty list when k = 1; a user without repositories yields the
\* empty list too.
C15_Non200ReturnsAccumulated ==
    /\ (op = "repos" /\ gr.log # <<>> /\ LastListing.outcome = "non200") =>
          LET k == LastListing.page
          IN  /\ gr.pc = "done"
              /\ Increasing(gr.repos)
              /\ Range(gr.repos) =
                    {i \in 1..Min((k - 1) * PerPage, gr.total) :
                        gr.include_forks \/ i \notin gr.forks}
              /\ k = 1 => gr.repos = <<>>
    /\ (GrReturned /\ gr.total = 0 /\ gr.log[1].outcome = "ok") => gr.repos = <<>>
\* the call for the second page failed after the first page had contributed
C15_Witness ==
    /\ GrReturned
    /\ LastListing.outcome = "non200" /\ LastListing.page = 2
    /\ gr.repos # <<>>

\* C16: the metadata call is issued exactly when the latest-release call
\* answered 200, and after it; the result is absent exactly when the
\* latest-release call was not a 200; a metadata call that is not a 200
\* still gives a ReleaseInfo, with language "Unknown", 0 stars and 0 forks;
\* download_count is the sum of the assets' download counts.
RlCalled(call) == \E j \in 1..Len(rl.log) : rl.log[j].call = call
C16_TwoCallJoin ==
    (op = "release" /\ rl.pc \in {"done", "raised"}) =>
        /\ rl.log[1].call = "release"
        /\ RlCalled("metadata") <=> Is200(rl.log[1].outcome)
        /\ \A j \in 2..Len(rl.log) : rl.log[j].call = "metadata"
        /\ rl.pc = "done" =>
              /\ ~Present(rl.result) <=> rl.log[1].outcome = "non200"
              /\ (Len(rl.log) = 2 /\ rl.log[2].outcome = "non200") =>
                    /\ Present(rl.result)
                    /\ Get(rl.result).language = "Unknown"
                    /\ Get(rl.result).stars = 0
                    /\ Get(rl.result).forks = 0
              /\ Present(rl.result) =>
                    Get(rl.result).download_count = SumDownloads(rl.release_data)

\* C17: get_packages never holds more than one "npm" and one "python"
\* record; the manifests are requested in the order setup.py,
\* pyproject.toml, setup.cfg and none is requested after one was found; on
\* return there is a "python" record exactly when a manifest was found.
PkCount(type) ==
    Cardinality({j \in 1..Len(pk.packages) : pk.packages[j].package_type = type})
IsManifestCall(e) == e.call \in Range(PythonFiles)
ManifestCalls == SelectSeq(pk.log, IsManifestCall)
ManifestFound ==
    \E j \in 1..Len(ManifestCalls) : Is200(ManifestCalls[j].outcome)
C17_OneRecordPerType ==
    op = "packages" =>
        /\ PkCount("npm") <= 1
        /\ PkCount("python") <= 1
        /\ \A j \in 1..Len(ManifestCalls) :
              /\ ManifestCalls[j].call = PythonFiles[j]
              /\ j < Len(ManifestCalls) => ManifestCalls[j].outcome = "non200"
        /\ pk.pc = "done" => (PkCount("python") = 1 <=> ManifestFound)
\* both records are present, the Python one from the second manifest
C17_Witness ==
    /\ op = "packages" /\ pk.pc = "done"
    /\ PkCount("npm") = 1 /\ PkCount("python") = 1
    /\ Len(ManifestCalls) = 2

\* C18: once a manifest was found the call does not raise and returns
\* exactly one "python" record; the record points at PyPI only if a name
\* was extracted and the PyPI lookup answered 200 with a readable body, and
\* it is the placeholder ("Unknown", the GitHub URL) whenever no name was
\* extracted or the lookup did not answer 200.
PyPiOutcome(outcomes) ==
    \E j \in 1..Len(pk.log) :
        pk.log[j].call = "pypi" /\ pk.log[j].outcome \in outcomes
PythonRecord ==
    pk.packages[CHOOSE j \in 1..Len(pk.packages) :
                    pk.packages[j].package_type = "python"]
C18_FoundManifestGivesOneRecord ==
    (op = "packages" /\ ManifestFound) =>
        /\ pk.pc # "raised"
        /\ pk.pc = "done" =>
              /\ PkCount("python") = 1
              /\ PythonRecord.package_url = "pypi" =>
                    pk.name /\ PyPiOutcome({"ok"})
              /\ ~(pk.name /\ PyPiOutcome({"ok", "badjson"})) =>
                    PythonRecord = Placeholder
\* the PyPI lookup raised and the placeholder was returned
C18_Witness ==
    /\ op = "packages" /\ pk.pc = "done"
    /\ PyPiOutcome({"exception"})
    /\ PkCount("python") = 1 /\ PythonRecord = Placeholder

(***************************************************************************)
(* The batch statistics, src/batch_analyzer.py.  A release carries its      *)
(* repo_name, its language (absent for None, possibly the empty string)     *)
(* and its stars.                                                           *)
(***************************************************************************)
ReleaseRecords ==
    [repo_name : {"x", "y"},
     language : {Absent, Some(""), Some("Go"), Some("Rust")},
     stars : {5, 20}]
ReleaseLists == UNION {[1..n -> ReleaseRecords] : n \in 0..MaxReleases}

\* release.language or "Unknown"
Language(release) ==
    IF Present(release.language) /\ Get(release.language) # ""
    THEN Get(release.language) ELSE "Unknown"

\* a dictionary is the sequence of its <<key, value>> items in insertion order
\* mutant: a new key is put in front of the older ones
DictIncrPrepends(d, k) ==
    IF \E j \in 1..Len(d) : d[j][1] = k
    THEN [j \in 1..Len(d) |-> IF d[j][1] = k THEN <<k, d[j][2] + 1>> ELSE d[j]]
    ELSE <<<<k, 1>>>> \o d

\* language_counts[k] = language_counts.get(k, 0) + 1
DictIncr(d, k) ==
    IF \E j \in 1..Len(d) : d[j][1] = k
    THEN [j \in 1..Len(d) |-> IF d[j][1] = k THEN <<k, d[j][2] + 1>> ELSE d[j]]
    ELSE Append(d, <<k, 1>>)

\* the loop at lines 114-117
RECURSIVE LanguageCounts(_)
LanguageCounts(releases) ==
    IF releases = <<>> THEN <<>>
    ELSE DictIncr(LanguageCounts(SubSeq(releases, 1, Len(releases) - 1)),
                  Language(releases[Len(releases)]))

\* mutant: a later item with an equal key replaces the current maximum
RECURSIVE PyMaxIndexLastWins(_, _)
PyMaxIndexLastWins(keys, n) ==
    IF n = 1 THEN 1
    ELSE LET b == PyMaxIndexLastWins(keys, n - 1)
         IN  IF keys[n] >= keys[b] THEN n ELSE b

\* max(iterable, key=...): the position, among the first n items, of the
\* item max returns; an item replaces the current maximum only if its key is
\* greater
RECURSIVE PyMaxIndex(_, _)
PyMaxIndex(keys, n) ==
    IF n = 1 THEN 1
    ELSE LET b == PyMaxIndex(keys, n - 1)
         IN  IF keys[n] > keys[b] THEN n ELSE b

get_most_popular_language(releases) ==
    IF releases = <<>> THEN "Unknown"
    ELSE LET language_counts == LanguageCounts(releases)
             counts == [j \in 1..Len(language_counts) |-> language_counts[j][2]]
         IN  language_counts[PyMaxIndex(counts, Len(counts))][1]

\* f"{most_starred.repo_name} ({most_starred.stars} stars)", as the sequence
\* of its pieces
FormatStarred(release) ==
    <<release.repo_name, " (", ToString(release.stars), " stars)">>

get_most_starred_repo(releases) ==
    IF releases = <<>> THEN <<"None">>
    ELSE LET stars == [j \in 1..Len(releases) |-> releases[j].stars]
         IN  FormatStarred(releases[PyMaxIndex(stars, Len(stars))])

\* batch_analyzer.py:57
CallMostPopularLanguage ==
    /\ op = "stats"
    /\ ~Present(st.language)
    /\ st' = [st EXCEPT !.language = Some(get_most_popular_language(st.releases))]
    /\ UNCHANGED <<webVars, valVars, moreVars, op, gr, rl, pk>>

\* batch_analyzer.py:58
CallMostStarredRepo ==
    /\ op = "stats"
    /\ ~Present(st.starred)
    /\ st' = [st EXCEPT !.starred = Some(get_most_starred_repo(st.releases))]
    /\ UNCHANGED <<webVars, valVars, moreVars, op, gr, rl, pk>>

InitStats ==
    /\ MainInit
    /\ ValidatorIdle
    /\ MoreIdle
    /\ op = "stats"
    /\ gr = GrIdle
    /\ rl = RlIdle
    /\ pk = PkIdle
    /\ st \in {[StIdle EXCEPT !.pc = "call", !.releases = r] : r \in ReleaseLists}

NextStats ==
    \/ CallMostPopularLanguage
    \/ CallMostStarredRepo

SpecStats == InitStats /\ [][NextStats]_vars

(***************************************************************************)
(* Properties of the batch statistics.                                      *)
(***************************************************************************)
LanguagesOf(releases) == [j \in 1..Len(releases) |-> Language(releases[j])]
Occurrences(q, x) == Cardinality({j \in 1..Len(q) : q[j] = x})
FirstAt(q, x) == CHOOSE j \in 1..Len(q) : q[j] = x /\ \A i \in 1..(j - 1) : q[i] # x

\* C19: for a non-empty list get_most_popular_language returns a language
\* of the list (absent and empty languages counting as "Unknown") that no
\* other language outnumbers, and every other language with the same count
\* occurs first at a later position; for the empty list it returns
\* "Unknown".
C19_MostFrequentFirstWins ==
    (op = "stats" /\ Present(st.language)) =>
        LET res == Get(st.language)
            L == LanguagesOf(st.releases)
        IN  IF st.releases = <<>> THEN res = "Unknown"
            ELSE /\ res \in Range(L)
                 /\ \A x \in Range(L) :
                       /\ Occurrences(L, x) <= Occurrences(L, res)
                       /\ (x # res /\ Occurrences(L, x) = Occurrences(L, res))
                             => FirstAt(L, res) < FirstAt(L, x)
\* two languages tie for the maximum, one of them "Unknown" by absence
C19_Witness ==
    /\ op = "stats" /\ Present(st.language)
    /\ LET L == LanguagesOf(st.releases)
       IN  /\ \E x \in Range(L) :
                 /\ x # Get(st.language)
                 /\ Occurrences(L, x) = Occurrences(L, Get(st.language))
           /\ "Unknown" \in Range(L)
           /\ Len(L) = MaxReleases

\* C20: for a non-empty list get_most_starred_repo names the first release
\* of the list whose stars are the maximum, with its stars; for the empty
\* list it returns "None".
C20_MostStarredFirstWins ==
    (op = "stats" /\ Present(st.starred)) =>
        LET res == Get(st.starred)
            R == st.releases
        IN  IF R = <<>> THEN res = <<"None">>
            ELSE \E i \in 1..Len(R) :
                    /\ \A j \in 1..Len(R) : R[j].stars <= R[i].stars
                    /\ \A j \in 1..(i - 1) : R[j].stars < R[i].stars
                    /\ res = <<R[i].repo_name, " (", ToString(R[i].stars), " stars)">>
\* two releases with different names tie for the maximum, behind a release
\* with fewer stars
C20_Witness ==
    /\ op = "stats" /\ Present(st.starred)
    /\ \E i, j \in 1..Len(st.releases) :
          /\ 1 < i /\ i < j
          /\ st.releases[i].stars = st.releases[j].stars
          /\ st.releases[i].stars > st.releases[1].stars
          /\ st.releases[i].repo_name # st.releases[j].repo_name

(***************************************************************************)
(* categorize_projects, src/web_app.py.  Texts are sequences of characters, *)
(* so that "term in name" is a search for a contiguous subsequence.         *)
(***************************************************************************)
UpperLetters == <<"A", "B", "C", "D", "E", "F", "G", "H", "I", "J", "K", "L", "M">>
                \o <<"N", "O", "P", "Q", "R", "S", "T", "U", "V", "W", "X", "Y", "Z">>
LowerLetters == <<"a", "b", "c", "d", "e", "f", "g", "h", "i", "j", "k", "l", "m">>
                \o <<"n", "o", "p", "q", "r", "s", "t", "u", "v", "w", "x", "y", "z">>

\* str.lower()
LowerChar(c) ==
    IF \E i \in 1..Len(UpperLetters) : UpperLetters[i] = c
    THEN LowerLetters[CHOOSE i \in 1..Len(UpperLetters) : UpperLetters[i] = c]
    ELSE c
LowerText(t) == [i \in 1..Len(t) |-> LowerChar(t[i])]

\* term in name
Contains(name, term) ==
    \E i \in 0..(Len(name) - Len(term)) : SubSeq(name, i + 1, i + Len(term)) = term
\* any(term in name for term in terms)
AnyTermIn(name, terms) == \E j \in 1..Len(terms) : Contains(name, terms[j])

\* the keyword and language lists of lines 298-310
WebTerms == <<<<"w", "e", "b">>, <<"s", "i", "t", "e">>, <<"h", "t", "m", "l">>, <<"c", "s", "s">>, <<"j", "s">>>>
WebLangs ==
    {<<"j", "a", "v", "a", "s", "c", "r", "i", "p", "t">>,
     <<"t", "y", "p", "e", "s", "c", "r", "i", "p", "t">>,
     <<"h", "t", "m", "l">>,
     <<"c", "s", "s">>}
DataTerms == <<<<"d", "a", "t", "a">>, <<"m", "l">>, <<"a", "i">>,
               <<"a", "n", "a", "l", "y", "s", "i", "s">>>>
DataLangs ==
    {<<"p", "y", "t", "h", "o", "n">>,
     <<"r">>,
     <<"j", "u", "p", "y", "t", "e", "r", " ", "n", "o", "t", "e", "b", "o", "o", "k">>}
DevOpsTerms == <<<<"d", "o", "c", "k", "e", "r">>, <<"k", "8", "s">>,
                 <<"d", "e", "p", "l", "o", "y">>, <<"c", "i">>, <<"c", "d">>>>
DevOpsLangs ==
    {<<"s", "h", "e", "l", "l">>,
     <<"d", "o", "c", "k", "e", "r", "f", "i", "l", "e">>}
MobileLangs ==
    {<<"s", "w", "i", "f", "t">>,
     <<"k", "o", "t", "l", "i", "n">>,
     <<"j", "a", "v", "a">>,
     <<"d", "a", "r", "t">>}
DesktopLangs ==
    {<<"c", "+", "+">>,
     <<"c", "#">>,
     <<"c">>,
     <<"r", "u", "s", "t">>,
     <<"g", "o">>}
LibraryTerms == <<<<"l", "i", "b">>, <<"s", "d", "k">>, <<"a", "p", "i">>,
                  <<"f", "r", "a", "m", "e", "w", "o", "r", "k">>>>
ToolTerms == <<<<"t", "o", "o", "l">>, <<"c", "l", "i">>, <<"u", "t", "i", "l">>,
               <<"h", "e", "l", "p", "e", "r">>>>

\* the keys of the categories dictionary, in insertion order (lines 284-293)
CategoryNames ==
    <<"Web Development", "Data Science", "DevOps", "Mobile", "Desktop",
      "Libraries", "Tools", "Other">>

\* (release.get('language') or '').lower() and release.get('repo_name', '').lower()
LangOf(release) == LowerText(GetOr(release.language, <<>>))
NameOf(release) == LowerText(release.repo_name)

\* mutant: the Data Science rule is tried before the Web Development rule
CategoryDataFirst(release) ==
    LET lang == LangOf(release)
        name == NameOf(release)
    IN  IF AnyTermIn(name, DataTerms) \/ lang \in DataLangs THEN "Data Science"
        ELSE IF AnyTermIn(name, WebTerms) \/ lang \in WebLangs THEN "Web Development"
        ELSE IF AnyTermIn(name, DevOpsTerms) \/ lang \in DevOpsLangs THEN "DevOps"
        ELSE IF lang \in MobileLangs THEN "Mobile"
        ELSE IF lang \in DesktopLangs THEN "Desktop"
        ELSE IF AnyTermIn(name, LibraryTerms) THEN "Libraries"
        ELSE IF AnyTermIn(name, ToolTerms) THEN "Tools"
        ELSE "Other"

\* the if/elif chain of lines 298-313: the key whose count is incremented
Category(release) ==
    LET lang == LangOf(release)
        name == NameOf(release)
    IN  IF AnyTermIn(name, WebTerms) \/ lang \in WebLangs THEN "Web Development"
        ELSE IF AnyTermIn(name, DataTerms) \/ lang \in DataLangs THEN "Data Science"
        ELSE IF AnyTermIn(name, DevOpsTerms) \/ lang \in DevOpsLangs THEN "DevOps"
        ELSE IF lang \in MobileLangs THEN "Mobile"
        ELSE IF lang \in DesktopLangs THEN "Desktop"
        ELSE IF AnyTermIn(name, LibraryTerms) THEN "Libraries"
        ELSE IF AnyTermIn(name, ToolTerms) THEN "Tools"
        ELSE "Other"

\* the categories dictionary after the loop over the first n releases
RECURSIVE CategoryCounts(_, _)
CategoryCounts(releases, n) ==
    IF n = 0 THEN [j \in 1..Len(CategoryNames) |-> <<CategoryNames[j], 0>>]
    ELSE LET d == CategoryCounts(releases, n - 1)
             k == Category(releases[n])
         IN  [j \in 1..Len(d) |-> IF d[j][1] = k THEN <<k, d[j][2] + 1>> ELSE d[j]]

\* {k: v for k, v in categories.items() if v > 0}
categorize_projects(releases) ==
    LET Nonzero(item) == item[2] > 0
    IN  SelectSeq(CategoryCounts(releases, Len(releases)), Nonzero)

\* the releases that are tried: names and languages that meet every rule, some
\* of them several rules at once
CzNames ==
    {<<"w", "e", "b", "a", "p", "p">>,
     <<"c", "l", "i">>,
     <<"d", "a", "t", "a", "l", "i", "b">>,
     <<"K", "8", "s", "-", "A", "P", "I">>,
     <<"h", "e", "l", "p", "e", "r">>,
     <<"x">>}
CzLanguages ==
    {Absent, Some(<<"J", "a", "v", "a", "S", "c", "r", "i", "p", "t">>),
     Some(<<"P", "y", "t", "h", "o", "n">>), Some(<<"G", "o">>),
     Some(<<"J", "a", "v", "a">>), Some(<<"H", "a", "s", "k", "e", "l", "l">>)}
CzReleases == [repo_name : CzNames, language : CzLanguages]
CzLists == UNION {[1..n -> CzReleases] : n \in 0..MaxCatReleases}

\* web_app.py:245
CallCategorize ==
    /\ op = "categorize"
    /\ cz.pc = "call"
    /\ cz' = [cz EXCEPT !.pc = "ret", !.result = categorize_projects(cz.releases)]
    /\ UNCHANGED <<webVars, valVars, op, gr, rl, pk, st, ag, rp, ba>>

InitCategorize ==
    /\ MainInit
    /\ ValidatorIdle
    /\ op = "categorize"
    /\ gr = GrIdle /\ rl = RlIdle /\ pk = PkIdle /\ st = StIdle
    /\ ag = AgIdle /\ rp = RpIdle /\ ba = BaIdle
    /\ cz \in {[CzIdle EXCEPT !.pc = "call", !.releases = r] : r \in CzLists}

NextCategorize == CallCategorize

SpecCategorize == InitCategorize /\ [][NextCategorize]_vars

\* the rules in their order, stated one by one
RuleMatches(k, release) ==
    LET lang == LangOf(release)
        name == NameOf(release)
    IN  CASE k = 1 -> AnyTermIn(name, WebTerms) \/ lang \in WebLangs
          [] k = 2 -> AnyTermIn(name, DataTerms) \/ lang \in DataLangs
          [] k = 3 -> AnyTermIn(name, DevOpsTerms) \/ lang \in DevOpsLangs
          [] k = 4 -> lang \in MobileLangs
          [] k = 5 -> lang \in DesktopLangs
          [] k = 6 -> AnyTermIn(name, LibraryTerms)
          [] k = 7 -> AnyTermIn(name, ToolTerms)
          [] k = 8 -> TRUE
FirstRule(release) ==
    CHOOSE k \in 1..8 : RuleMatches(k, release) /\ \A i \in 1..(k - 1) : ~RuleMatches(i, release)
CountOf(result, name) ==
    IF \E j \in 1..Len(result) : result[j][1] = name
    THEN result[CHOOSE j \in 1..Len(result) : result[j][1] = name][2]
    ELSE 0
RECURSIVE SumCounts(_)
SumCounts(result) ==
    IF result = <<>> THEN 0 ELSE result[1][2] + SumCounts(Tail(result))

\* C21: the count reported for each of the eight categories is the number of
\* releases whose first matching rule, in the order Web Development, Data
\* Science, DevOps, Mobile, Desktop, Libraries, Tools, Other, is that
\* category; the counts sum to the number of releases; no category is
\* reported with a count of zero and none twice.
C21_FirstMatchingRuleCounts ==
    (op = "categorize" /\ cz.pc = "ret") =>
        /\ \A k \in 1..8 :
              CountOf(cz.result, CategoryNames[k]) =
                 Cardinality({j \in 1..Len(cz.releases) : FirstRule(cz.releases[j]) = k})
        /\ SumCounts(cz.result) = Len(cz.releases)
        /\ \A j \in 1..Len(cz.result) :
              /\ cz.result[j][2] > 0
              /\ cz.result[j][1] \in Range(CategoryNames)
              /\ \A i \in 1..Len(cz.result) : cz.result[i][1] = cz.result[j][1] => i = j
\* "webapp" in Python, which the Web and the Data Science rule both match,
\* was counted as Web Development, and a "cli" without language as Tools
C21_Witness ==
    /\ op = "categorize" /\ cz.pc = "ret"
    /\ Len(cz.releases) = 2
    /\ cz.releases[1] = [repo_name |-> <<"w", "e", "b", "a", "p", "p">>, language |-> Some(<<"P", "y", "t", "h", "o", "n">>)]
    /\ cz.releases[2] = [repo_name |-> <<"c", "l", "i">>, language |-> Absent]
    /\ cz.result = <<<<"Web Development", 1>>, <<"Tools", 1>>>>

(***************************************************************************)
(* Dates in get_github_stats, src/web_app.py.  A release_date is the text   *)
(* that _format_date produced: strftime('%Y-%m-%d') of the publication day, *)
(* or "Unknown".  A datetime is a number of seconds.                        *)
(***************************************************************************)
DigitChars == <<"0", "1", "2", "3", "4", "5", "6", "7", "8", "9">>
IsDigit(c) == \E i \in 1..Len(DigitChars) : DigitChars[i] = c
DigitValue(c) == (CHOOSE i \in 1..Len(DigitChars) : DigitChars[i] = c) - 1
\* the characters of the texts that are compared, in the order of their codes
CharOrder == <<"-">> \o DigitChars \o <<"U", "k", "n", "o", "w">>
Ord(c) == CHOOSE i \in 1..Len(CharOrder) : CharOrder[i] = c

\* str > str
RECURSIVE TextGreater(_, _)
TextGreater(a, b) ==
    IF a = <<>> THEN FALSE
    ELSE IF b = <<>> THEN TRUE
    ELSE IF Head(a) # Head(b) THEN Ord(Head(a)) > Ord(Head(b))
    ELSE TextGreater(Tail(a), Tail(b))

\* version_tracker.py:243: dt.strftime('%Y-%m-%d')
TwoDigits(n) == <<DigitChars[(n \div 10) + 1], DigitChars[(n % 10) + 1]>>
StrfTime(date) ==
    TwoDigits(date[1] \div 100) \o TwoDigits(date[1] % 100) \o <<"-">>
       \o TwoDigits(date[2]) \o <<"-">> \o TwoDigits(date[3])
UnknownText == <<"U", "n", "k", "n", "o", "w", "n">>

RECURSIVE Number(_)
Number(t) ==
    IF t = <<>> THEN 0
    ELSE 10 * Number(SubSeq(t, 1, Len(t) - 1)) + DigitValue(t[Len(t)])
AllDigits(t) == \A i \in 1..Len(t) : IsDigit(t[i])

IsLeap(y) == y % 4 = 0 /\ (y % 100 # 0 \/ y % 400 = 0)
DaysInMonth(y, m) ==
    IF m = 2 THEN (IF IsLeap(y) THEN 29 ELSE 28)
    ELSE IF m \in {4, 6, 9, 11} THEN 30 ELSE 31

\* datetime.strptime(text, '%Y-%m-%d'): four digits, a dash, one or two
\* digits, a dash, one or two digits, naming a day of the calendar; absent
\* when strptime raises ValueError
StrpTime(text) ==
    LET fits(ml, dl) ==
            /\ Len(text) = 6 + ml + dl
            /\ AllDigits(SubSeq(text, 1, 4))
            /\ text[5] = "-"
            /\ AllDigits(SubSeq(text, 6, 5 + ml))
            /\ text[6 + ml] = "-"
            /\ AllDigits(SubSeq(text, 7 + ml, 6 + ml + dl))
        date(ml, dl) ==
            <<Number(SubSeq(text, 1, 4)), Number(SubSeq(text, 6, 5 + ml)),
              Number(SubSeq(text, 7 + ml, 6 + ml + dl))>>
        valid(d) ==
            /\ d[1] >= 1
            /\ d[2] \in 1..12
            /\ d[3] \in 1..DaysInMonth(d[1], d[2])
        shapes == {sh \in {1, 2} \X {1, 2} :
                      fits(sh[1], sh[2]) /\ valid(date(sh[1], sh[2]))}
    IN  IF shapes = {} THEN Absent
        ELSE LET sh == CHOOSE x \in shapes : TRUE IN Some(date(sh[1], sh[2]))

\* the number of days from 1970-01-01 to the day <<y, m, d>>
DayNumber(date) ==
    LET y == IF date[2] <= 2 THEN date[1] - 1 ELSE date[1]
        era == y \div 400
        yoe == y - era * 400
        mp == IF date[2] > 2 THEN date[2] - 3 ELSE date[2] + 9
        doy == (153 * mp + 2) \div 5 + date[3] - 1
        doe == yoe * 365 + yoe \div 4 - yoe \div 100 + doy
    IN  era * 146097 + doe - 719468
\* the datetime at second tod of the day
DateTime(date, tod) == DayNumber(date) * SecondsPerDay + tod

\* mutant: a text that does not parse counts as recent
is_recent_release_unparsed_counts(date_str, clock) ==
    LET parsed == StrpTime(date_str)
    IN  IF ~Present(parsed) THEN TRUE
        ELSE DateTime(Get(parsed), 0) >= clock - RecentDays * SecondsPerDay

\* is_recent_release(date_str), with datetime.now() = clock
is_recent_release(date_str, clock) ==
    LET parsed == StrpTime(date_str)
    IN  IF ~Present(parsed) THEN FALSE
        ELSE DateTime(Get(parsed), 0) >= clock - RecentDays * SecondsPerDay

(***************************************************************************)
(* get_github_stats, src/web_app.py lines 145-271: one aggregation pass.    *)
(* The listing is what get_user_repos returns; a repository carries its     *)
(* language, the publication day of its latest release (or no release at    *)
(* all, or a release without publication day) and the number of packages    *)
(* get_packages finds.  Every tracker call may raise.                       *)
(***************************************************************************)
\* today, and the publication days that are tried with their age in days
Today == <<2026, 1, 15>>
InputDays == <<<<2026, 1, 15>>, <<2026, 1, 10>>, <<2025, 12, 16>>, <<2025, 12, 15>>>>
InputAges == <<0, 5, 30, 31>>

GoText == <<"G", "o">>
RepoNameText == <<"x">>
AgReleases ==
    {Absent} \cup {Some([published |-> d]) : d \in {Absent} \cup {Some(k) : k \in 1..Len(InputDays)}}
AgRepos == [language : {Absent, Some(GoText)}, release : AgReleases, npkgs : {0, 1}]
RecentRepo == [language |-> Some(GoText), release |-> Some([published |-> Some(2)]),
               npkgs |-> 0]
AgShortListings == UNION {[1..n -> AgRepos] : n \in 0..MaxRepos}
AgLongListings ==
    {[j \in 1..n |-> RecentRepo] \o t :
        n \in (RecentCap - 1)..(RecentCap + 1),
        t \in UNION {[1..m -> AgRepos] : m \in 0..1}}
\* datetime.now() at the end of the pass: midnight or noon of today
AgClocks == {DateTime(Today, 0), DateTime(Today, SecondsPerDay \div 2)}

\* version_tracker.py:236-245, _format_date of the publication day
FormatDate(published) ==
    IF ~Present(published) THEN UnknownText ELSE StrfTime(InputDays[Get(published)])

\* the dictionary appended at lines 199-210; "repo" stands for the identity
\* of the repository, its position in the listing
ReleaseDict(i, repo) ==
    [repo |-> i,
     repo_name |-> RepoNameText,
     release_date |-> FormatDate(Get(repo.release).published),
     language |-> Some(GetOr(repo.language, UnknownText)),
     stars |-> 5]
\* the dictionaries appended at lines 214-221
PackageDicts(i, repo) == [j \in 1..repo.npkgs |-> [repo |-> i]]

\* mutant: only repositories with a release are counted
CountLanguageIfReleased(languages, repo) ==
    IF Present(repo.language) /\ Present(repo.release)
    THEN DictIncr(languages, Get(repo.language)) ELSE languages

\* lines 224-226
CountLanguage(languages, repo) ==
    IF Present(repo.language) THEN DictIncr(languages, Get(repo.language))
    ELSE languages

\* the sort keys of lines 229 and 243 and of the renderers
LaterDate(a, b) == TextGreater(a.release_date, b.release_date)
HigherCount(a, b) == a[2] > b[2]
MoreStars(a, b) == a.stars > b.stars

\* list.sort(key=..., reverse=True) and sorted(..., reverse=True): the items
\* in descending order of their keys, items with equal keys in their
\* original order
SortedDesc(q, key) ==
    LET Greater(a, b) == CASE key = "release_date" -> LaterDate(a, b)
                           [] key = "count" -> HigherCount(a, b)
                           [] key = "stars" -> MoreStars(a, b)
        rank(i) ==
            Cardinality({j \in 1..Len(q) : Greater(q[j], q[i])})
              + Cardinality({j \in 1..(i - 1) :
                               ~Greater(q[j], q[i]) /\ ~Greater(q[i], q[j])})
              + 1
    IN  [p \in 1..Len(q) |-> q[CHOOSE i \in 1..Len(q) : rank(i) = p]]

\* q[:n]
Prefix(q, n) == SubSeq(q, 1, Min(n, Len(q)))

RECURSIVE SumStars(_)
SumStars(releases) ==
    IF releases = <<>> THEN 0 ELSE Head(releases).stars + SumStars(Tail(releases))

\* line 265
RecentActivity(recent_releases) == Prefix(recent_releases, RecentCap)

\* lines 228-266: what the function returns, from the local variables
Aggregate(a) ==
    LET releases == SortedDesc(a.releases, "release_date")
        IsRecent(r) == is_recent_release(r.release_date, a.clock)
        recent_releases == SortedDesc(SelectSeq(releases, IsRecent), "release_date")
        top_languages == Prefix(SortedDesc(a.languages, "count"), TopLanguages)
    IN  [summary |->
            [total_repositories |-> Len(a.repos),
             total_releases |-> Len(releases),
             total_packages |-> Len(a.packages),
             total_stars |-> SumStars(releases),
             recent_releases |-> Len(recent_releases),
             active_languages |-> Len(a.languages)],
         releases |-> releases,
         packages |-> a.packages,
         languages |-> top_languages,
         categories |-> categorize_projects(releases),
         recent_activity |-> RecentActivity(recent_releases)]

AgCall(a, call) == Append(a.calls, call)

\* mutant: new items are put in front of the accumulated ones
AccumulateInFront(list, items) == items \o list

\* list.append(item) and list.extend(items)
Accumulate(list, items) == list \o items

\* line 157: repos = tracker.get_user_repos(username, include_forks=False)
AggListRepos(outcome) ==
    /\ op = "aggregate"
    /\ ag.pc = "list"
    /\ ag' = IF outcome = "raises"
             THEN [ag EXCEPT !.pc = "raised", !.calls = AgCall(ag, <<"list", 0>>)]
             ELSE [ag EXCEPT !.repos = ag.listing,
                             !.calls = AgCall(ag, <<"list", 0>>),
                             !.pc = IF ag.listing = <<>> THEN "finish" ELSE "release"]
    /\ UNCHANGED <<webVars, valVars, op, gr, rl, pk, st, cz, rp, ba>>

\* lines 164-210: the release lookup for repos[i]
AggLatestRelease(outcome) ==
    /\ op = "aggregate"
    /\ ag.pc = "release"
    /\ LET repo == ag.repos[ag.i]
           a == [ag EXCEPT !.calls = AgCall(ag, <<"release", ag.i>>)]
       IN  ag' = IF outcome = "raises" THEN [a EXCEPT !.pc = "raised"]
                 ELSE IF Present(repo.release)
                 THEN [a EXCEPT !.pc = "packages",
                                !.releases = Accumulate(@, <<ReleaseDict(ag.i, repo)>>)]
                 ELSE [a EXCEPT !.pc = "packages"]
    /\ UNCHANGED <<webVars, valVars, op, gr, rl, pk, st, cz, rp, ba>>

\* "for repo in repos": the next repository, or the end of the loop
NextRepo(a) ==
    IF a.i < Len(a.repos) THEN [a EXCEPT !.pc = "release", !.i = @ + 1]
    ELSE [a EXCEPT !.pc = "finish"]

\* lines 212-226: the package probe for repos[i] and the language count
AggPackages(outcome) ==
    /\ op = "aggregate"
    /\ ag.pc = "packages"
    /\ LET repo == ag.repos[ag.i]
           a == [ag EXCEPT !.calls = AgCall(ag, <<"packages", ag.i>>)]
       IN  ag' = IF outcome = "raises" THEN [a EXCEPT !.pc = "raised"]
                 ELSE NextRepo([a EXCEPT
                          !.packages = Accumulate(@, PackageDicts(ag.i, repo)),
                          !.languages = CountLanguage(@, repo)])
    /\ UNCHANGED <<webVars, valVars, op, gr, rl, pk, st, cz, rp, ba>>

\* lines 228-266
AggFinish ==
    /\ op = "aggregate"
    /\ ag.pc = "finish"
    /\ ag' = [ag EXCEPT !.pc = "done",
                        !.releases = SortedDesc(ag.releases, "release_date"),
                        !.result = Some(Aggregate(ag))]
    /\ UNCHANGED <<webVars, valVars, op, gr, rl, pk, st, cz, rp, ba>>

InitAggregate ==
    /\ MainInit
    /\ ValidatorIdle
    /\ op = "aggregate"
    /\ gr = GrIdle /\ rl = RlIdle /\ pk = PkIdle /\ st = StIdle
    /\ cz = CzIdle /\ rp = RpIdle /\ ba = BaIdle
    /\ ag \in {[AgIdle EXCEPT !.pc = "list", !.listing = l, !.clock = c] :
                  l \in AgShortListings \cup AgLongListings, c \in AgClocks}

TrackerOutcomes == {"returns", "raises"}

NextAggregate ==
    \/ \E outcome \in TrackerOutcomes : AggListRepos(outcome)
    \/ \E outcome \in TrackerOutcomes : AggLatestRelease(outcome)
    \/ \E outcome \in TrackerOutcomes : AggPackages(outcome)
    \/ AggFinish

SpecAggregate == InitAggregate /\ [][NextAggregate]_vars

(***************************************************************************)
(* Properties of the aggregation pass.                                      *)
(***************************************************************************)
AgReturned == op = "aggregate" /\ ag.pc = "done"
Released == {i \in 1..Len(ag.listing) : Present(ag.listing[i].release)}
LanguagesListed ==
    {Get(ag.listing[i].language) :
        i \in {j \in 1..Len(ag.listing) : Present(ag.listing[j].language)}}

\* C22: in the aggregate, total_repositories is the length of the listing;
\* the releases list holds one entry for each repository that has a latest
\* release and none for the others, so total_releases <= total_repositories;
\* the count reported for a language is the number of repositories of the
\* listing with that language, with or without a release.
C22_UnreleasedReposStillCounted ==
    AgReturned =>
        LET r == Get(ag.result)
        IN  /\ r.summary.total_repositories = Len(ag.listing)
            /\ r.summary.total_releases = Len(r.releases)
            /\ r.summary.total_releases <= r.summary.total_repositories
            /\ Len(r.releases) = Cardinality(Released)
            /\ {r.releases[j].repo : j \in 1..Len(r.releases)} = Released
            /\ r.summary.active_languages = Cardinality(LanguagesListed)
            /\ Cardinality(LanguagesListed) <= TopLanguages =>
                  /\ {r.languages[j][1] : j \in 1..Len(r.languages)} = LanguagesListed
                  /\ \A l \in LanguagesListed :
                        CountOf(r.languages, l) =
                           Cardinality({i \in 1..Len(ag.listing) :
                                           ag.listing[i].language = Some(l)})
\* the first repository has a language and no release, the second has both
C22_Witness ==
    /\ AgReturned
    /\ Len(ag.listing) = 2
    /\ ~Present(ag.listing[1].release) /\ Present(ag.listing[1].language)
    /\ Present(ag.listing[2].release) /\ Present(ag.listing[2].language)
    /\ Get(ag.result).languages = <<<<GoText, 2>>>>

\* the age in days of the release of repository i, absent when the release
\* has no publication day, and whether it lies within the last 30 days of
\* the clock
AgeOf(i) ==
    LET published == Get(ag.listing[i].release).published
    IN  IF Present(published) THEN Some(InputAges[Get(published)]) ELSE Absent
SecondOfDay == ag.clock - DateTime(Today, 0)
WithinRecentDays(i) ==
    /\ Present(AgeOf(i))
    /\ Get(AgeOf(i)) * SecondsPerDay + SecondOfDay <= RecentDays * SecondsPerDay

\* C23: recent_activity holds only releases published within the last 30
\* days (none without a date that parses), newest first, at most 10 of them,
\* and they are the first 10 of the releases that summary.recent_releases
\* counts, which are all releases published within the last 30 days.
C23_RecentActivityCapped ==
    AgReturned =>
        LET r == Get(ag.result)
            A == r.recent_activity
        IN  /\ \A j \in 1..Len(A) : WithinRecentDays(A[j].repo)
            /\ \A j \in 1..(Len(A) - 1) :
                  Get(AgeOf(A[j].repo)) <= Get(AgeOf(A[j + 1].repo))
            /\ \A j, k \in 1..Len(A) : A[j].repo = A[k].repo => j = k
            /\ Len(A) <= RecentCap
            /\ r.summary.recent_releases =
                  Cardinality({i \in Released : WithinRecentDays(i)})
            /\ Len(A) = Min(RecentCap, r.summary.recent_releases)
\* more than 10 recent releases, a release without date and a release that
\* is too old
C23_Witness ==
    /\ AgReturned
    /\ Get(ag.result).summary.recent_releases > RecentCap
    /\ Len(Get(ag.result).recent_activity) = RecentCap
    /\ \E i \in Released : ~Present(AgeOf(i)) \/ ~WithinRecentDays(i)

\* C25: the calls of a pass are the listing call, then for repository 1, 2,
\* ... in this order the release lookup followed by the package probe; while
\* the pass runs, the accumulated releases and packages are those of the
\* repositories processed so far, in the order of the listing.
ReposOf(q) == [j \in 1..Len(q) |-> q[j].repo]
SortInPlace(releases) ==
    [rows |-> SortedDesc(releases, "stars"),
     releases |-> SortedDesc(releases, "stars")]

\* for release in sorted(releases, key=lambda x: x.stars, reverse=True): the
\* rows in the order of the iteration, and the list passed in afterwards
SortedByStars(releases) ==
    [rows |-> SortedDesc(releases, "stars"), releases |-> releases]

\* lines 283-353
DisplayRich ==
    /\ op = "render"
    /\ rp.pc = "call"
    /\ rp.output_format = "rich"
    /\ rp' = [rp EXCEPT !.pc = "shown",
                        !.shown_releases = SortedByStars(rp.releases).rows,
                        !.releases = SortedByStars(rp.releases).releases,
                        !.shown_packages = rp.packages]
    /\ UNCHANGED <<webVars, valVars, op, gr, rl, pk, st, cz, ag, ba>>

\* lines 355-396
DisplayTable ==
    /\ op = "render"
    /\ rp.pc = "call"
    /\ rp.output_format \notin {"rich", "json"}
    /\ rp' = [rp EXCEPT !.pc = "shown",
                        !.shown_releases = SortedByStars(rp.releases).rows,
                        !.releases = SortedByStars(rp.releases).releases,
                        !.shown_packages = rp.packages]
    /\ UNCHANGED <<webVars, valVars, op, gr, rl, pk, st, cz, ag, ba>>

\* lines 398-435: the comprehensions go through both lists in their order
DisplayJson ==
    /\ op = "render"
    /\ rp.pc = "call"
    /\ rp.output_format = "json"
    /\ rp' = [rp EXCEPT !.pc = "shown",
                        !.shown_releases = rp.releases,
                        !.shown_packages = rp.packages]
    /\ UNCHANGED <<webVars, valVars, op, gr, rl, pk, st, cz, ag, ba>>

\* the lists that are rendered: releases and packages of distinct
\* repositories, in every order of their stars
RpReleaseLists ==
    UNION {{[i \in 1..n |-> [repo |-> i, stars |-> f[i]]] : f \in [1..n -> {1, 5, 20}]} :
              n \in 0..MaxReleases}
RpPackageLists == {[i \in 1..n |-> [repo |-> i]] : n \in 0..2}
OutputFormats == {"rich", "json", "table", "csv"}

InitRender ==
    /\ MainInit
    /\ ValidatorIdle
    /\ op = "render"
    /\ gr = GrIdle /\ rl = RlIdle /\ pk = PkIdle /\ st = StIdle
    /\ cz = CzIdle /\ ag = AgIdle /\ ba = BaIdle
    /\ rp \in {[RpIdle EXCEPT !.pc = "call", !.output_format = f, !.releases = r,
                              !.packages = p,
                              !.given = [releases |-> r, packages |-> p]] :
                  f \in OutputFormats, r \in RpReleaseLists, p \in RpPackageLists}

NextRender ==
    \/ DisplayRich
    \/ DisplayTable
    \/ DisplayJson

SpecRender == InitRender /\ [][NextRender]_vars

\* C24: after a renderer ran, the releases and packages lists passed in are
\* what they were; the rich and the table renderer show every release once,
\* in descending order of stars; the JSON renderer shows releases and
\* packages in the order of the lists.
C24_RenderingLeavesListsAlone ==
    (op = "render" /\ rp.pc = "shown") =>
        /\ rp.releases = rp.given.releases
        /\ rp.packages = rp.given.packages
        /\ rp.shown_packages = rp.given.packages
        /\ rp.output_format = "json" => rp.shown_releases = rp.given.releases
        /\ rp.output_format # "json" =>
              /\ Len(rp.shown_releases) = Len(rp.given.releases)
              /\ Range(rp.shown_releases) = Range(rp.given.releases)
              /\ \A j \in 1..(Len(rp.shown_releases) - 1) :
                    rp.shown_releases[j].stars >= rp.shown_releases[j + 1].stars
\* the table renderer showed three releases in an order other than that of
\* the list
C24_Witness ==
    /\ op = "render" /\ rp.pc = "shown"
    /\ rp.output_format = "table"
    /\ Len(rp.releases) = 3
    /\ rp.shown_releases # rp.releases

(***************************************************************************)
(* analyze_multiple_users and generate_summary_report,                      *)
(* src/batch_analyzer.py.  The analysis of one username either raises or    *)
(* yields a report, of which the summary is kept here; ba.files are the     *)
(* usernames whose <username>_report.json was written.                      *)
(***************************************************************************)
BatchUsers == {"u1", "u2"}
UserLists == UNION {[1..n -> BatchUsers] : n \in 0..MaxUsers}
SummaryFields ==
    <<"total_repositories", "total_releases", "total_packages",
      "total_downloads", "total_stars">>
\* the report summaries an analysis can yield
UserSummaries ==
    {[total_repositories |-> 0, total_releases |-> 0, total_packages |-> 0,
      total_downloads |-> 0, total_stars |-> 0],
     [total_repositories |-> 3, total_releases |-> 2, total_packages |-> 1,
      total_downloads |-> 40, total_stars |-> 7]}

\* d[k] = v on a dictionary kept as its items in insertion order
DictPut(d, k, v) ==
    IF \E j \in 1..Len(d) : d[j][1] = k
    THEN [j \in 1..Len(d) |-> IF d[j][1] = k THEN <<k, v>> ELSE d[j]]
    ELSE Append(d, <<k, v>>)
DictKeys(d) == {d[j][1] : j \in 1..Len(d)}

\* sum(report['summary'][field] for report in all_reports.values())
RECURSIVE SumOver(_, _)
SumOver(all_reports, field) ==
    IF all_reports = <<>> THEN 0
    ELSE Head(all_reports)[2][field] + SumOver(Tail(all_reports), field)

\* generate_summary_report: the summary_data that is written
generate_summary_report(all_reports) ==
    [total_users_analyzed |-> Len(all_reports),
     aggregated_stats |-> [j \in 1..Len(SummaryFields) |->
                             SumOver(all_reports, SummaryFields[j])],
     user_summaries |-> all_reports]

\* mutant: the first failure ends the loop
AfterUserStopsOnError(b, failed) ==
    IF failed \/ b.k = Len(b.usernames) THEN [b EXCEPT !.pc = "combined"]
    ELSE [b EXCEPT !.k = @ + 1]

\* the next iteration of "for username in usernames", after the try block
\* ended normally or through "except Exception ... continue"
AfterUser(b, failed) ==
    IF b.k = Len(b.usernames) THEN [b EXCEPT !.pc = "combined"]
    ELSE [b EXCEPT !.k = @ + 1]

\* lines 23-97: the try block for usernames[k]
AnalyzeUser(outcome) ==
    /\ op = "batch"
    /\ ba.pc = "user"
    /\ LET username == ba.usernames[ba.k]
           b == [ba EXCEPT !.attempts = Append(@, <<username, outcome>>)]
       IN  \E summary \in UserSummaries :
             ba' = IF outcome = "raises" THEN AfterUser(b, TRUE)
                   ELSE AfterUser([b EXCEPT
                           !.all_reports = DictPut(@, username, summary),
                           !.files = @ \cup {username}], FALSE)
    /\ UNCHANGED <<webVars, valVars, op, gr, rl, pk, st, cz, ag, rp>>

\* lines 99-104: combined_report.json
SaveCombined ==
    /\ op = "batch"
    /\ ba.pc = "combined"
    /\ ba' = [ba EXCEPT !.pc = "summary", !.combined = Some(ba.all_reports)]
    /\ UNCHANGED <<webVars, valVars, op, gr, rl, pk, st, cz, ag, rp>>

\* line 107 and lines 129-157: summary_report.json
SaveSummary ==
    /\ op = "batch"
    /\ ba.pc = "summary"
    /\ ba' = [ba EXCEPT !.pc = "done",
                        !.summary = Some(generate_summary_report(ba.all_reports))]
    /\ UNCHANGED <<webVars, valVars, op, gr, rl, pk, st, cz, ag, rp>>

InitBatch ==
    /\ MainInit
    /\ ValidatorIdle
    /\ op = "batch"
    /\ gr = GrIdle /\ rl = RlIdle /\ pk = PkIdle /\ st = StIdle
    /\ cz = CzIdle /\ ag = AgIdle /\ rp = RpIdle
    /\ ba \in {[BaIdle EXCEPT !.usernames = l,
                              !.pc = IF l = <<>> THEN "combined" ELSE "user"] :
                  l \in UserLists}

NextBatch ==
    \/ \E outcome \in TrackerOutcomes : AnalyzeUser(outcome)
    \/ SaveCombined
    \/ SaveSummary

SpecBatch == InitBatch /\ [][NextBatch]_vars

\* C26: every username of the list is tried, whatever happened to the ones
\* before it; the usernames with a report file, those of the combined report
\* and those of the summary are the usernames of which an analysis
\* succeeded; both reports are written once the loop has ended; every
\* aggregated total is the sum of that value over the user summaries of the
\* summary report.
Succeeded ==
    {ba.attempts[j][1] : j \in {i \in 1..Len(ba.attempts) : ba.attempts[i][2] = "returns"}}
RECURSIVE SumValues(_, _)
SumValues(items, field) ==
    IF items = <<>> THEN 0 ELSE items[1][2][field] + SumValues(Tail(items), field)
C27_AnswerIsForRequestedUser ==
    \A h \in Handlers :
        (Done(h) /\ IsStats(h) /\ req[h].resp.status = 200) =>
            req[h].resp.user = Some(req[h].user)

\* C28: a background refresh started by an earlier request does not write
\* to the slot while the slot holds the complete entry that a later request
\* for a different username has written.
HoldsEntryOf(g) ==
    /\ req[g].wrote = Fields
    /\ cache.data = req[g].data
    /\ cache.username = Some(req[g].user)
C28_EarlierRefreshNeverOverwrites ==
    [][\A b, g \in Handlers :
          (b < g /\ Done(g) /\ HoldsEntryOf(g) /\ bg[b].user # req[g].user
                 /\ bg[b].pc = "store" /\ bg'[b] # bg[b])
             => cache' = cache]_vars

\* C29 as stated: an api_stats request with a valid username that is not
\* answered as a hit has started one background refresh for its username,
\* and has started it before its synchronous fetch; a request that found the
\* slot empty or holding another username has also fetched synchronously;
\* api_refresh and rejected requests start no refresh.
SpawnedOwnRefresh(h) == Spawned(h) /\ bg[h].user = req[h].user
SpawnRules(h) ==
    /\ (IsStats(h) /\ req[h].chk \in {"data", "user", "lu", "age"}
          /\ req[h].pc \notin {"spawn"}) => SpawnedOwnRefresh(h)
    /\ (IsStats(h) /\ req[h].fetched) => SpawnedOwnRefresh(h)
    /\ (IsRefresh(h) \/ req[h].resp.status = 400 \/ req[h].chk = "hit")
          => ~Spawned(h)
C29_MissRunsTwoPasses ==
    \A h \in Handlers :
        /\ SpawnRules(h)
        /\ (Done(h) /\ IsStats(h) /\ req[h].chk \in {"data", "user"})
              => req[h].fetched

\* C29 amended: as above, except that the request fetches synchronously
\* only if its second look at the slot (line 368), after the refresh was
\* started, still finds it empty or holding another username; if the slot by
\* then holds the requested username, the background pass is the only one.
C29_MissRunsBackgroundPassFirst ==
    \A h \in Handlers :
        /\ SpawnRules(h)
        /\ (Done(h) /\ IsStats(h) /\ req[h].chk \in {"data", "user"}) =>
              /\ req[h].chk2 = "sync" => req[h].fetched
              /\ req[h].chk2 = "cached" => ~req[h].fetched
              /\ req[h].chk2 \in {"sync", "cached"}
\* both passes of one request have written the slot, the background one last
C29_Witness ==
    \E h \in Handlers :
        /\ Done(h) /\ IsStats(h) /\ req[h].chk \in {"data", "user"}
        /\ req[h].chk2 = "sync" /\ req[h].wrote = Fields
        /\ bg[h].pc = "done" /\ bg[h].wrote = Fields
        /\ cache.data = bg[h].data

\* C30: get_user_repos ends for every finite listing: its requests are for
\* pages 1, 2, 3, ... in this order, each once, at most one more than the
\* listing has full pages; nothing is requested after a non-200 answer, an
\* empty page or a page shorter than per_page; and the call is eventually
\* left.
PagesInOrder == \A j \in 1..Len(gr.log) : gr.log[j].page = j
EndsLoop(e) ==
    \/ e.outcome = "non200"
    \/ e.outcome = "ok" /\ e.n < PerPage
EndsAtFirstEnd ==
    \A j \in 1..Len(gr.log) :
        EndsLoop(gr.log[j]) => (j = Len(gr.log) /\ gr.pc = "done")
GrLeft == gr.pc \in {"done", "raised"}
C30_GetUserReposTerminates ==
    /\ [](op = "repos" =>
            /\ PagesInOrder
            /\ EndsAtFirstEnd
            /\ Len(gr.log) <= (gr.total \div PerPage) + 1)
    /\ <>(op = "repos" => GrLeft)
\* two full pages were read and the third, empty one ended the loop
C30_Witness ==
    /\ GrReturned
    /\ Len(gr.log) = 3
    /\ \A j \in 1..3 : gr.log[j].outcome = "ok"
    /\ gr.log[3].n = 0

====
